---- MODULE Spec2Model ----
(***************************************************************************)
(* A model of the anora.cafe terminal storefront: the cart (models/cart.rs),*)
(* the address and payment records (models/user.rs), the TTL cache          *)
(* (db/cache.rs) and the session state machine App (app.rs).                *)
(*                                                                          *)
(* Text is a sequence of one-character strings; Option::None is the string  *)
(* "None"; a Vec is a sequence.  The backend (db/supabase.rs) is the        *)
(* environment: the answer of each call is an input of the action that      *)
(* makes the call.                                                          *)
(***************************************************************************)
EXTENDS Integers, Sequences, FiniteSets, TLC

(***************************************************************************)
(* Bounds of the model.                                                     *)
(***************************************************************************)
\* characters one form (shipping or payment) holds at most while being typed
MaxTyped == 6
\* characters typed into one field at most
MaxFieldLen == 1
\* largest quantity the App-level specifications let one cart line reach
MaxQty == 2
\* how many add_item calls the driver of CartAddSpec makes
MaxAdds == 3

\* key events the terminal holds unread
MaxQueue == 2

\* characters typed into the two forms together, under FieldSpec
MaxKeyed == 2

(***************************************************************************)
(* Program constants.                                                       *)
(***************************************************************************)
ProductsTtl == 300
RegionsTtl == 1800
MaxSavedAddresses == 3
CardNumberCap == 16
ExpiryMonthCap == 2
ExpiryYearCap == 4
CvvCap == 3
MaxProductQuantity == 99
I32Max == 2147483647
I32Min == -2147483647 - 1

None == "None"

(***************************************************************************)
(* models/user.rs: ShippingAddress, SavedAddress, PaymentInfo.              *)
(***************************************************************************)
EmptyText == <<>>

ShippingAddressDefault ==
    [name |-> EmptyText, street_1 |-> EmptyText, street_2 |-> EmptyText,
     city |-> EmptyText, state |-> EmptyText, country |-> EmptyText,
     phone |-> EmptyText, postal_code |-> EmptyText]

PaymentInfoDefault ==
    [name |-> EmptyText, email |-> EmptyText, card_number |-> EmptyText,
     expiry_month |-> EmptyText, expiry_year |-> EmptyText, cvv |-> EmptyText]

\* ShippingAddress::is_complete: phone, state and street_2 are not required
ShippingIsComplete(a) ==
    /\ a.name # EmptyText
    /\ a.street_1 # EmptyText
    /\ a.city # EmptyText
    /\ a.country # EmptyText
    /\ a.postal_code # EmptyText

\* SavedAddress::from_shipping: id and created_at are absent until persisted
FromShipping(a, fingerprint) ==
    [id |-> None, user_fingerprint |-> fingerprint,
     name |-> a.name, street_1 |-> a.street_1, street_2 |-> a.street_2,
     city |-> a.city, state |-> a.state, country |-> a.country,
     phone |-> a.phone, postal_code |-> a.postal_code,
     created_at |-> None]

\* SavedAddress::to_shipping: drops id, fingerprint and timestamp
ToShipping(s) ==
    [name |-> s.name, street_1 |-> s.street_1, street_2 |-> s.street_2,
     city |-> s.city, state |-> s.state, country |-> s.country,
     phone |-> s.phone, postal_code |-> s.postal_code]

\* PaymentInfo::is_complete
PaymentIsComplete(p) ==
    /\ p.name # EmptyText
    /\ p.email # EmptyText
    /\ p.card_number # EmptyText
    /\ p.expiry_month # EmptyText
    /\ p.expiry_year # EmptyText
    /\ p.cvv # EmptyText

\* char::is_ascii_digit
IsAsciiDigit(c) == c \in {"0", "1", "2", "3", "4", "5", "6", "7", "8", "9"}

(***************************************************************************)
(* app.rs: InputField and its two orderings.                                *)
(***************************************************************************)
ShippingFields ==
    <<"Name", "Street1", "Street2", "City", "State", "Country", "Phone", "PostalCode">>

PaymentFields ==
    <<"PaymentName", "PaymentEmail", "CardNumber", "ExpiryMonth", "ExpiryYear", "Cvv">>

InputFields == {None} \cup {ShippingFields[i] : i \in 1..Len(ShippingFields)}
                      \cup {PaymentFields[i] : i \in 1..Len(PaymentFields)}

\* fields.iter().position(|f| f == self).unwrap_or(0), as a 0-based index
PositionOrZero(fields, f) ==
    IF \E i \in 1..Len(fields) : fields[i] = f
    THEN (CHOOSE i \in 1..Len(fields) : fields[i] = f) - 1
    ELSE 0

\* the next field, staying on the last one instead of wrapping
NextInOrderStoppingAtEnd(fields, f) ==
    LET idx == PositionOrZero(fields, f) + 1
    IN  IF idx < Len(fields) THEN fields[idx + 1] ELSE fields[Len(fields)]

\* fields.get(current_idx + 1).copied().unwrap_or(fields[0])
NextInOrder(fields, f) ==
    LET idx == PositionOrZero(fields, f) + 1
    IN  IF idx < Len(fields) THEN fields[idx + 1] ELSE fields[1]

NextShipping(f) == NextInOrder(ShippingFields, f)

NextPayment(f) == NextInOrder(PaymentFields, f)

\* the record field an InputField edits (the arms of handle_input_char)
ShippingSlot(f) ==
    CASE f = "Name" -> "name"
      [] f = "Street1" -> "street_1"
      [] f = "Street2" -> "street_2"
      [] f = "City" -> "city"
      [] f = "State" -> "state"
      [] f = "Country" -> "country"
      [] f = "Phone" -> "phone"
      [] f = "PostalCode" -> "postal_code"

PaymentSlot(f) ==
    CASE f = "PaymentName" -> "name"
      [] f = "PaymentEmail" -> "email"
      [] f = "CardNumber" -> "card_number"
      [] f = "ExpiryMonth" -> "expiry_month"
      [] f = "ExpiryYear" -> "expiry_year"
      [] f = "Cvv" -> "cvv"

IsShippingField(f) == \E i \in 1..Len(ShippingFields) : ShippingFields[i] = f

IsPaymentField(f) == \E i \in 1..Len(PaymentFields) : PaymentFields[i] = f

\* caps that let one character more into each digit-only field
DigitCapOneMore(f) ==
    CASE f = "CardNumber" -> CardNumberCap + 1
      [] f = "ExpiryMonth" -> ExpiryMonthCap + 1
      [] f = "ExpiryYear" -> ExpiryYearCap + 1
      [] f = "Cvv" -> CvvCap + 1
      [] OTHER -> 0

\* the length cap of a digit-only payment field; 0 for a free-text field
DigitCap(f) ==
    CASE f = "CardNumber" -> CardNumberCap
      [] f = "ExpiryMonth" -> ExpiryMonthCap
      [] f = "ExpiryYear" -> ExpiryYearCap
      [] f = "Cvv" -> CvvCap
      [] OTHER -> 0

(***************************************************************************)
(* 32-bit signed arithmetic (quantities, prices and totals are i32).        *)
(* Add32 and Mul32 are the results of a release build (wrapping); a debug    *)
(* build panics instead whenever the exact result leaves the range.         *)
(***************************************************************************)
\* a + b leaves the i32 range
AddOverflows(x, y) ==
    \/ y > 0 /\ x > I32Max - y
    \/ y < 0 /\ x < I32Min - y

\* i32 wrapping_add. TLC's own integers are 32 bits wide, so the wrapped sum
\* is computed without ever leaving the range
Add32(x, y) ==
    IF y > 0 /\ x > I32Max - y THEN (x - I32Max - 1) + (y + I32Min)
    ELSE IF y < 0 /\ x < I32Min - y THEN (x - I32Min) + (y + I32Max + 1)
    ELSE x + y

\* i32 wrapping_neg
Neg32(x) == IF x = I32Min THEN I32Min ELSE 0 - x

RECURSIVE MulNat32(_, _)
MulNat32(x, n) ==
    IF n = 0 THEN 0
    ELSE LET h == MulNat32(x, n \div 2)
             d == Add32(h, h)
         IN  IF n % 2 = 1 THEN Add32(d, x) ELSE d

\* i32 wrapping_mul
Mul32(x, y) ==
    IF y >= 0 THEN MulNat32(x, y)
    ELSE IF y = I32Min THEN (IF x % 2 = 0 THEN 0 ELSE I32Min)
    ELSE Neg32(MulNat32(x, 0 - y))

(***************************************************************************)
(* models/cart.rs: Cart, a Vec of CartItem {product, quantity}.  A product  *)
(* is the snapshot [id, price_cents] taken when the line was created.       *)
(***************************************************************************)
CartNew == <<>>

\* CartItem::new (the item's own random id is never read and is left out)
CartItemNew(product, quantity) == [product |-> product, quantity |-> quantity]

\* items.iter_mut().find(|i| i.product.id == id): the first such line, or 0
FindItem(items, id) ==
    IF \E i \in 1..Len(items) : items[i].product.id = id
    THEN CHOOSE i \in 1..Len(items) :
            /\ items[i].product.id = id
            /\ \A j \in 1..(i - 1) : items[j].product.id # id
    ELSE 0

\* Cart::remove_item: retain the lines of every other product
RemoveItem(items, id) == SelectSeq(items, LAMBDA it : it.product.id # id)

\* Cart::add_item
AddItem(items, product, quantity) ==
    LET i == FindItem(items, product.id)
    IN  IF i # 0
        THEN [items EXCEPT ![i].quantity = Add32(@, quantity)]
        ELSE Append(items, CartItemNew(product, quantity))

\* Cart::update_quantity
UpdateQuantity(items, id, quantity) ==
    LET i == FindItem(items, id)
    IN  IF i = 0 THEN items
        ELSE IF quantity <= 0 THEN RemoveItem(items, id)
        ELSE [items EXCEPT ![i].quantity = quantity]

\* Cart::increment_item
IncrementItem(items, id) ==
    LET i == FindItem(items, id)
    IN  IF i = 0 THEN items
        ELSE [items EXCEPT ![i].quantity = Add32(@, 1)]

\* decrement_item keeping a line whose quantity reaches zero
DecrementItemToZero(items, id) ==
    LET i == FindItem(items, id)
    IN  IF i = 0 THEN items
        ELSE IF items[i].quantity > 0
        THEN [items EXCEPT ![i].quantity = @ - 1]
        ELSE RemoveItem(items, id)

\* Cart::decrement_item
DecrementItem(items, id) ==
    LET i == FindItem(items, id)
    IN  IF i = 0 THEN items
        ELSE IF items[i].quantity > 1
        THEN [items EXCEPT ![i].quantity = @ - 1]
        ELSE RemoveItem(items, id)

\* CartItem::total_cents
TotalCents(it) == Mul32(it.product.price_cents, it.quantity)

RECURSIVE SumQuantities(_)
SumQuantities(items) ==
    IF items = <<>> THEN 0
    ELSE Add32(SumQuantities(SubSeq(items, 1, Len(items) - 1)),
               items[Len(items)].quantity)

\* Cart::total_items
TotalItems(items) == SumQuantities(items)

RECURSIVE SumTotals(_)
SumTotals(items) ==
    IF items = <<>> THEN 0
    ELSE Add32(SumTotals(SubSeq(items, 1, Len(items) - 1)),
               TotalCents(items[Len(items)]))

\* Cart::subtotal_cents
SubtotalCents(items) == SumTotals(items)

\* Cart::is_empty
CartIsEmpty(items) == items = <<>>

\* Cart::clear
CartClear(items) == <<>>

(***************************************************************************)
(* db/cache.rs: Cache<T> is a map from key to {data, expires_at} with a     *)
(* fixed ttl; t is Instant::now() in seconds.                               *)
(***************************************************************************)
CacheNew(ttl_secs) == [entries |-> <<>>, ttl |-> ttl_secs]

\* Cache::get serving an entry at the very instant it expires
CacheGetAtExpiry(cache, key, t) ==
    IF key \in DOMAIN cache.entries /\ t <= cache.entries[key].expires_at
    THEN cache.entries[key].data
    ELSE None

\* Cache::get: the data of a live entry, None for a missing or expired one
CacheGet(cache, key, t) ==
    IF key \in DOMAIN cache.entries /\ t < cache.entries[key].expires_at
    THEN cache.entries[key].data
    ELSE None

\* Cache::set: insert or overwrite, expiring ttl after t
CacheSet(cache, key, data, t) ==
    [cache EXCEPT !.entries =
        [k \in (DOMAIN cache.entries) \cup {key} |->
            IF k = key THEN [data |-> data, expires_at |-> t + cache.ttl]
            ELSE cache.entries[k]]]

\* Cache::has
CacheHas(cache, key, t) ==
    key \in DOMAIN cache.entries /\ t < cache.entries[key].expires_at

\* DataCache::new
DataCacheNew == [products |-> CacheNew(ProductsTtl), regions |-> CacheNew(RegionsTtl)]

ProductsKey(region_id) == "products:" \o region_id

RegionsKey == "regions"

\* DataCache::get_products / set_products / get_regions / set_regions
GetProducts(dc, region_id, t) == CacheGet(dc.products, ProductsKey(region_id), t)

SetProducts(dc, region_id, products, t) ==
    [dc EXCEPT !.products = CacheSet(@, ProductsKey(region_id), products, t)]

GetRegions(dc, t) == CacheGet(dc.regions, RegionsKey, t)

SetRegions(dc, regions, t) ==
    [dc EXCEPT !.regions = CacheSet(@, RegionsKey, regions, t)]

(***************************************************************************)
(* models/region.rs                                                         *)
(***************************************************************************)
RegionDefault == [id |-> "global", name |-> "Global", free_shipping_threshold |-> 40]

(***************************************************************************)
(* app.rs: struct App.  The session is the record `app`; every method is an *)
(* operator from the record before the call to the record after it.  The    *)
(* field db_calls is the requests the SupabaseClient `db` has sent while    *)
(* handling the current event.  orders, subscriptions and splash_start are  *)
(* never written after construction and are left out.                       *)
(***************************************************************************)
Fingerprint == "SHA256:fp"

\* App::new
AppNew ==
    [running |-> TRUE,
     current_tab |-> "Home",
     region |-> RegionDefault,
     regions |-> <<>>,
     products |-> <<>>,
     cart |-> CartNew,
     selected_product_index |-> 0,
     product_quantity |-> 1,
     account_section |-> "OrderHistory",
     checkout_step |-> "Cart",
     cart_item_index |-> 0,
     payment_option_index |-> 0,
     payment_method |-> None,
     shipping_address |-> ShippingAddressDefault,
     saved_addresses |-> <<>>,
     shipping_mode |-> "SelectAddress",
     address_select_index |-> 0,
     payment_info |-> PaymentInfoDefault,
     active_input |-> None,
     notification |-> None,
     loading |-> "Idle",
     show_splash |-> TRUE,
     identity |-> Fingerprint,
     cache |-> DataCacheNew,
     db_calls |-> <<>>]

\* a request leaves through self.db
Sent(a, call) == [a EXCEPT !.db_calls = Append(@, call)]

\* App::skip_splash
SkipSplash(a) == [a EXCEPT !.show_splash = FALSE]

\* App::quit
Quit(a) == [a EXCEPT !.running = FALSE]

\* the region kept after a region list is installed (app.rs:226-228, 238-240)
RegionAfterLoad(a, regions) ==
    IF a.region.id = "" /\ regions # <<>> THEN regions[1] ELSE a.region

\* load_regions keeping the list and the region it had when the backend fails
LoadRegionsKeepingListOnFailure(a, t, res) ==
    LET cached == GetRegions(a.cache, t)
        b == Sent(a, "get_regions")
    IN  IF cached # None
        THEN [a EXCEPT !.regions = cached, !.region = RegionAfterLoad(a, cached)]
        ELSE IF res.ok /\ res.val # <<>>
        THEN [b EXCEPT !.cache = SetRegions(@, res.val, t),
                       !.regions = res.val,
                       !.region = RegionAfterLoad(a, res.val),
                       !.loading = "Idle"]
        ELSE IF res.ok
        THEN [b EXCEPT !.regions = <<RegionDefault>>,
                       !.region = RegionDefault,
                       !.loading = "Idle"]
        ELSE [b EXCEPT !.loading = "Error",
                       !.notification = "Failed to load regions: " \o res.err]

\* App::load_regions; res is the answer of db.get_regions
LoadRegions(a, t, res) ==
    LET cached == GetRegions(a.cache, t)
        b == Sent(a, "get_regions")
    IN  IF cached # None
        THEN [a EXCEPT !.regions = cached, !.region = RegionAfterLoad(a, cached)]
        ELSE IF res.ok /\ res.val # <<>>
        THEN [b EXCEPT !.cache = SetRegions(@, res.val, t),
                       !.regions = res.val,
                       !.region = RegionAfterLoad(a, res.val),
                       !.loading = "Idle"]
        ELSE IF res.ok
        THEN [b EXCEPT !.regions = <<RegionDefault>>,
                       !.region = RegionDefault,
                       !.loading = "Idle"]
        ELSE [b EXCEPT !.loading = "Error",
                       !.notification = "Failed to load regions: " \o res.err,
                       !.regions = <<RegionDefault>>,
                       !.region = RegionDefault]

\* load_products keeping every region's catalog under the default region's key
LoadProductsUnderOneKey(a, t, res) ==
    LET cached == GetProducts(a.cache, RegionDefault.id, t)
        b == Sent(a, "get_products")
    IN  IF cached # None
        THEN [a EXCEPT !.products = cached]
        ELSE IF res.ok
        THEN [b EXCEPT !.cache = SetProducts(@, RegionDefault.id, res.val, t),
                       !.products = res.val,
                       !.loading = "Idle"]
        ELSE [b EXCEPT !.loading = "Error",
                       !.notification = "Failed to load products: " \o res.err,
                       !.products = <<>>]

\* load_products storing the empty catalog it falls back to on a failure
LoadProductsCachingFallback(a, t, res) ==
    LET cached == GetProducts(a.cache, a.region.id, t)
        b == Sent(a, "get_products")
    IN  IF cached # None
        THEN [a EXCEPT !.products = cached]
        ELSE IF res.ok
        THEN [b EXCEPT !.cache = SetProducts(@, a.region.id, res.val, t),
                       !.products = res.val,
                       !.loading = "Idle"]
        ELSE [b EXCEPT !.cache = SetProducts(@, a.region.id, <<>>, t),
                       !.loading = "Error",
                       !.notification = "Failed to load products: " \o res.err,
                       !.products = <<>>]

\* App::load_products; res is the answer of db.get_products(region.id)
LoadProducts(a, t, res) ==
    LET cached == GetProducts(a.cache, a.region.id, t)
        b == Sent(a, "get_products")
    IN  IF cached # None
        THEN [a EXCEPT !.products = cached]
        ELSE IF res.ok
        THEN [b EXCEPT !.cache = SetProducts(@, a.region.id, res.val, t),
                       !.products = res.val,
                       !.loading = "Idle"]
        ELSE [b EXCEPT !.loading = "Error",
                       !.notification = "Failed to load products: " \o res.err,
                       !.products = <<>>]

\* load_saved_addresses telling the customer of a failure
LoadSavedAddressesReportingFailure(a, res) ==
    LET b == Sent(a, "get_saved_addresses")
    IN  IF res.ok THEN [b EXCEPT !.saved_addresses = res.val]
        ELSE [b EXCEPT !.saved_addresses = <<>>,
                       !.notification = "Failed to load addresses: " \o res.err]

\* App::load_saved_addresses; res is the answer of db.get_saved_addresses
LoadSavedAddresses(a, res) ==
    LET b == Sent(a, "get_saved_addresses")
    IN  IF res.ok THEN [b EXCEPT !.saved_addresses = res.val]
        ELSE [b EXCEPT !.saved_addresses = <<>>]

\* the dedup test comparing street line 1 and postal code only
AddressExistsIgnoringCity(a) ==
    \E i \in 1..Len(a.saved_addresses) :
        /\ a.saved_addresses[i].street_1 = a.shipping_address.street_1
        /\ a.saved_addresses[i].postal_code = a.shipping_address.postal_code

\* the dedup test of save_address_to_db (app.rs:306-310)
AddressExists(a) ==
    \E i \in 1..Len(a.saved_addresses) :
        /\ a.saved_addresses[i].street_1 = a.shipping_address.street_1
        /\ a.saved_addresses[i].city = a.shipping_address.city
        /\ a.saved_addresses[i].postal_code = a.shipping_address.postal_code

\* the row db.save_address answers with: the server's row (id and timestamp
\* assigned), or the request echoed when the server returns no row
CreatedRow(sent, res) ==
    IF res.id = None THEN sent
    ELSE [sent EXCEPT !.id = res.id, !.created_at = res.created_at]

\* Vec::truncate
Truncate(seq, n) == IF Len(seq) > n THEN SubSeq(seq, 1, n) ELSE seq

\* save_address_to_db putting the new row behind the saved ones
SaveAddressToDbAtTheEnd(a, res) ==
    IF ~ShippingIsComplete(a.shipping_address)
          \/ Len(a.saved_addresses) >= MaxSavedAddresses
    THEN a
    ELSE IF AddressExists(a) THEN a
    ELSE LET request == FromShipping(a.shipping_address, a.identity)
             b == Sent(a, "save_address")
         IN  IF res.ok
             THEN [b EXCEPT !.saved_addresses =
                       Truncate(@ \o <<CreatedRow(request, res)>>, MaxSavedAddresses)]
             ELSE b

\* App::save_address_to_db; res is the answer of db.save_address
SaveAddressToDb(a, res) ==
    IF ~ShippingIsComplete(a.shipping_address)
          \/ Len(a.saved_addresses) >= MaxSavedAddresses
    THEN a
    ELSE IF AddressExists(a) THEN a
    ELSE LET request == FromShipping(a.shipping_address, a.identity)
             b == Sent(a, "save_address")
         IN  IF res.ok
             THEN [b EXCEPT !.saved_addresses =
                       Truncate(<<CreatedRow(request, res)>> \o @, MaxSavedAddresses)]
             ELSE b

\* Vec::remove(index), index 0-based
RemoveAt(seq, index) ==
    SubSeq(seq, 1, index) \o SubSeq(seq, index + 2, Len(seq))

\* App::delete_address_from_db; the answer of db.delete_address is dropped
DeleteAddressFromDb(a, index) ==
    IF index >= Len(a.saved_addresses) THEN a
    ELSE LET b == IF a.saved_addresses[index + 1].id # None
                  THEN Sent(a, "delete_address") ELSE a
             rest == RemoveAt(a.saved_addresses, index)
         IN  [b EXCEPT !.saved_addresses = rest,
                       !.address_select_index =
                           IF @ >= Len(rest) + 1 /\ @ > 0 THEN @ - 1 ELSE @]

\* App::load_initial_data
LoadInitialData(a, t, regions_res, products_res, saved_res) ==
    LoadSavedAddresses(LoadProducts(LoadRegions(a, t, regions_res), t, products_res),
                       saved_res)

\* change_region leaving the selection where it was in the old list
ChangeRegionKeepingIndex(a, t, region, res) ==
    LoadProducts([a EXCEPT !.region = region], t, res)

\* App::change_region
ChangeRegion(a, t, region, res) ==
    [LoadProducts([a EXCEPT !.region = region], t, res)
        EXCEPT !.selected_product_index = 0]

\* App::cycle_region
CycleRegion(a, t, res) ==
    IF a.regions = <<>> THEN a
    ELSE LET current_idx ==
                 IF \E i \in 1..Len(a.regions) : a.regions[i].id = a.region.id
                 THEN (CHOOSE i \in 1..Len(a.regions) :
                          /\ a.regions[i].id = a.region.id
                          /\ \A j \in 1..(i - 1) : a.regions[j].id # a.region.id) - 1
                 ELSE 0
             next_idx == (current_idx + 1) % Len(a.regions)
         IN  ChangeRegion(a, t, a.regions[next_idx + 1], res)

\* App::add_to_cart
AddToCart(a) ==
    IF a.selected_product_index < Len(a.products)
    THEN [a EXCEPT !.cart = AddItem(@, a.products[a.selected_product_index + 1],
                                    a.product_quantity),
                   !.product_quantity = 1]
    ELSE a

\* App::handle_input_char
HandleInputChar(a, c) ==
    LET b == [a EXCEPT !.notification = None]
        f == a.active_input
    IN  IF f = None THEN b
        ELSE IF IsShippingField(f)
        THEN [b EXCEPT !.shipping_address[ShippingSlot(f)] = Append(@, c)]
        ELSE IF f \in {"PaymentName", "PaymentEmail"}
        THEN [b EXCEPT !.payment_info[PaymentSlot(f)] = Append(@, c)]
        ELSE IF IsAsciiDigit(c) /\ Len(a.payment_info[PaymentSlot(f)]) < DigitCap(f)
        THEN [b EXCEPT !.payment_info[PaymentSlot(f)] = Append(@, c)]
        ELSE b

\* a pop that takes the first character instead of the last
PopFromFront(text) == IF text = <<>> THEN text ELSE SubSeq(text, 2, Len(text))

\* String::pop
Pop(text) == IF text = <<>> THEN text ELSE SubSeq(text, 1, Len(text) - 1)

\* App::handle_input_backspace
HandleInputBackspace(a) ==
    LET f == a.active_input
    IN  IF f = None THEN a
        ELSE IF IsShippingField(f)
        THEN [a EXCEPT !.shipping_address[ShippingSlot(f)] = Pop(@)]
        ELSE [a EXCEPT !.payment_info[PaymentSlot(f)] = Pop(@)]

\* next_input_field leaving the notification in place
NextInputFieldKeepingNotification(a) ==
    IF a.checkout_step = "Shipping"
    THEN [a EXCEPT !.active_input = NextShipping(@)]
    ELSE IF a.checkout_step = "Payment" /\ a.payment_method = "Ssh"
    THEN [a EXCEPT !.active_input = NextPayment(@)]
    ELSE a

\* App::next_input_field
NextInputField(a) ==
    LET b == [a EXCEPT !.notification = None]
    IN  IF a.checkout_step = "Shipping"
        THEN [b EXCEPT !.active_input = NextShipping(@)]
        ELSE IF a.checkout_step = "Payment" /\ a.payment_method = "Ssh"
        THEN [b EXCEPT !.active_input = NextPayment(@)]
        ELSE b

\* a step back that stops at the first entry instead of wrapping
PrevIndexStoppingAtFirst(i, last) == IF i >= 1 THEN i - 1 ELSE 0

\* usize::checked_sub(1).unwrap_or(last)
PrevIndex(i, last) == IF i >= 1 THEN i - 1 ELSE last

\* App::next_product
NextProduct(a) ==
    IF a.products # <<>>
    THEN [a EXCEPT !.selected_product_index = (@ + 1) % Len(a.products),
                   !.product_quantity = 1]
    ELSE a

\* App::prev_product
PrevProduct(a) ==
    IF a.products # <<>>
    THEN [a EXCEPT !.selected_product_index = PrevIndex(@, Len(a.products) - 1),
                   !.product_quantity = 1]
    ELSE a

\* App::next_account_section
NextAccountSection(a) ==
    [a EXCEPT !.account_section =
        CASE @ = "OrderHistory" -> "Subscriptions"
          [] @ = "Subscriptions" -> "Faq"
          [] @ = "Faq" -> "About"
          [] @ = "About" -> "OrderHistory"]

\* App::prev_account_section
PrevAccountSection(a) ==
    [a EXCEPT !.account_section =
        CASE @ = "OrderHistory" -> "About"
          [] @ = "Subscriptions" -> "OrderHistory"
          [] @ = "Faq" -> "Subscriptions"
          [] @ = "About" -> "Faq"]

\* next_cart_item wrapping one line past the last
NextCartItemWrappingLate(a) ==
    IF a.cart # <<>>
    THEN [a EXCEPT !.cart_item_index = (@ + 1) % (Len(a.cart) + 1)]
    ELSE a

\* App::next_cart_item
NextCartItem(a) ==
    IF a.cart # <<>>
    THEN [a EXCEPT !.cart_item_index = (@ + 1) % Len(a.cart)]
    ELSE a

\* App::prev_cart_item
PrevCartItem(a) ==
    IF a.cart # <<>>
    THEN [a EXCEPT !.cart_item_index = PrevIndex(@, Len(a.cart) - 1)]
    ELSE a

\* App::next_payment_option
NextPaymentOption(a) == [a EXCEPT !.payment_option_index = (@ + 1) % 2]

\* App::prev_payment_option
PrevPaymentOption(a) == [a EXCEPT !.payment_option_index = PrevIndex(@, 1)]

\* next_address_option counting one option too many
NextAddressOptionWrappingLate(a) ==
    [a EXCEPT !.address_select_index = (@ + 1) % (Len(a.saved_addresses) + 2)]

\* App::next_address_option: the saved addresses plus "add new address"
NextAddressOption(a) ==
    [a EXCEPT !.address_select_index = (@ + 1) % (Len(a.saved_addresses) + 1)]

\* App::prev_address_option
PrevAddressOption(a) ==
    [a EXCEPT !.address_select_index = PrevIndex(@, Len(a.saved_addresses))]

\* select_address_option copying the first saved row whatever row is highlighted
SelectAddressOptionFirstRow(a) ==
    IF a.address_select_index < Len(a.saved_addresses)
    THEN [a EXCEPT !.shipping_address = ToShipping(a.saved_addresses[1]),
                   !.active_input = None,
                   !.checkout_step = "Payment"]
    ELSE [a EXCEPT !.shipping_mode = "AddNewAddress",
                   !.shipping_address = ShippingAddressDefault,
                   !.active_input = "Name"]

\* select_address_option opening the form without emptying the working address
SelectAddressOptionKeepingDraft(a) ==
    IF a.address_select_index < Len(a.saved_addresses)
    THEN [a EXCEPT !.shipping_address =
                       ToShipping(a.saved_addresses[a.address_select_index + 1]),
                   !.active_input = None,
                   !.checkout_step = "Payment"]
    ELSE [a EXCEPT !.shipping_mode = "AddNewAddress",
                   !.active_input = "Name"]

\* App::select_address_option
SelectAddressOption(a) ==
    IF a.address_select_index < Len(a.saved_addresses)
    THEN [a EXCEPT !.shipping_address =
                       ToShipping(a.saved_addresses[a.address_select_index + 1]),
                   !.active_input = None,
                   !.checkout_step = "Payment"]
    ELSE [a EXCEPT !.shipping_mode = "AddNewAddress",
                   !.shipping_address = ShippingAddressDefault,
                   !.active_input = "Name"]

\* App::remove_selected_address
RemoveSelectedAddress(a) ==
    IF a.address_select_index < Len(a.saved_addresses)
    THEN DeleteAddressFromDb(a, a.address_select_index)
    ELSE a

\* get_empty_shipping_field without the test of phone
GetEmptyShippingFieldSkippingPhone(a) ==
    IF a.shipping_address.name = EmptyText THEN "name"
    ELSE IF a.shipping_address.street_1 = EmptyText THEN "street"
    ELSE IF a.shipping_address.city = EmptyText THEN "city"
    ELSE IF a.shipping_address.country = EmptyText THEN "country"
    ELSE IF a.shipping_address.postal_code = EmptyText THEN "postal code"
    ELSE None

\* App::get_empty_shipping_field: the first empty one, in the order tested
GetEmptyShippingField(a) ==
    IF a.shipping_address.name = EmptyText THEN "name"
    ELSE IF a.shipping_address.street_1 = EmptyText THEN "street"
    ELSE IF a.shipping_address.city = EmptyText THEN "city"
    ELSE IF a.shipping_address.country = EmptyText THEN "country"
    ELSE IF a.shipping_address.phone = EmptyText THEN "phone"
    ELSE IF a.shipping_address.postal_code = EmptyText THEN "postal code"
    ELSE None

\* get_empty_payment_field testing the expiry year before the expiry month
GetEmptyPaymentFieldYearFirst(a) ==
    IF a.payment_info.name = EmptyText THEN "name"
    ELSE IF a.payment_info.email = EmptyText THEN "email"
    ELSE IF a.payment_info.card_number = EmptyText THEN "card number"
    ELSE IF a.payment_info.expiry_year = EmptyText THEN "expiry year"
    ELSE IF a.payment_info.expiry_month = EmptyText THEN "expiry month"
    ELSE IF a.payment_info.cvv = EmptyText THEN "cvv"
    ELSE None

\* App::get_empty_payment_field: the first empty one, in the order tested
GetEmptyPaymentField(a) ==
    IF a.payment_info.name = EmptyText THEN "name"
    ELSE IF a.payment_info.email = EmptyText THEN "email"
    ELSE IF a.payment_info.card_number = EmptyText THEN "card number"
    ELSE IF a.payment_info.expiry_month = EmptyText THEN "expiry month"
    ELSE IF a.payment_info.expiry_year = EmptyText THEN "expiry year"
    ELSE IF a.payment_info.cvv = EmptyText THEN "cvv"
    ELSE None

\* format!("{} can't be empty", empty_field)
CantBeEmpty(field) == field \o " can't be empty"

\* the arm of Cart entering Shipping without resetting the highlighted option
AdvanceFromCartKeepingIndex(b) ==
    [b EXCEPT !.shipping_mode = "SelectAddress",
              !.active_input = None,
              !.checkout_step = "Shipping"]

\* next_checkout_step, the arm of Cart with a non-empty cart (app.rs:605-611)
AdvanceFromCart(b) ==
    [b EXCEPT !.shipping_mode = "SelectAddress",
              !.address_select_index = 0,
              !.active_input = None,
              !.checkout_step = "Shipping"]

\* next_checkout_step, the arm of Shipping (app.rs:612-630)
AdvanceFromShipping(b, res) ==
    IF b.shipping_mode = "SelectAddress"
    THEN b
    ELSE IF GetEmptyShippingField(b) # None
    THEN [b EXCEPT !.notification = CantBeEmpty(GetEmptyShippingField(b))]
    ELSE [SaveAddressToDb(b, res) EXCEPT !.active_input = None,
                                         !.checkout_step = "Payment"]

\* the arm of Payment validating the card form for the Browser method too
AdvanceFromPaymentGatingBrowser(b) ==
    IF b.payment_method \in {"Ssh", "Browser"}
    THEN IF GetEmptyPaymentField(b) # None
         THEN [b EXCEPT !.notification = CantBeEmpty(GetEmptyPaymentField(b))]
         ELSE [b EXCEPT !.checkout_step = "Confirmation"]
    ELSE b

\* next_checkout_step, the arm of Payment (app.rs:631-644)
AdvanceFromPayment(b) ==
    IF b.payment_method = "Ssh"
    THEN IF GetEmptyPaymentField(b) # None
         THEN [b EXCEPT !.notification = CantBeEmpty(GetEmptyPaymentField(b))]
         ELSE [b EXCEPT !.checkout_step = "Confirmation"]
    ELSE IF b.payment_method = "Browser"
    THEN [b EXCEPT !.checkout_step = "Confirmation"]
    ELSE b

\* next_checkout_step, the arm of Confirmation (app.rs:645-651)
AdvanceFromConfirmation(b) ==
    [b EXCEPT !.cart = CartClear(@),
              !.checkout_step = "Cart",
              !.current_tab = "Home"]

\* next_checkout_step opening without the notification reset
AdvanceEntryKeepingNotification(a) == a

\* the notification reset that opens next_checkout_step (app.rs:602)
AdvanceEntry(a) == [a EXCEPT !.notification = None]

\* next_checkout_step leaving step Cart with an empty cart as well
NextCheckoutStepFromEmptyCart(a, res) ==
    LET b == AdvanceEntry(a)
    IN  IF a.checkout_step = "Cart" THEN AdvanceFromCart(b)
        ELSE IF a.checkout_step = "Shipping" THEN AdvanceFromShipping(b, res)
        ELSE IF a.checkout_step = "Payment" THEN AdvanceFromPayment(b)
        ELSE IF a.checkout_step = "Confirmation" THEN AdvanceFromConfirmation(b)
        ELSE b

\* App::next_checkout_step; res is the answer of db.save_address
NextCheckoutStep(a, res) ==
    LET b == AdvanceEntry(a)
    IN  IF a.checkout_step = "Cart" /\ ~CartIsEmpty(a.cart) THEN AdvanceFromCart(b)
        ELSE IF a.checkout_step = "Shipping" THEN AdvanceFromShipping(b, res)
        ELSE IF a.checkout_step = "Payment" THEN AdvanceFromPayment(b)
        ELSE IF a.checkout_step = "Confirmation" THEN AdvanceFromConfirmation(b)
        ELSE b

\* App::clear_notification
ClearNotification(a) == [a EXCEPT !.notification = None]

\* prev_checkout_step leaving the chosen payment method in place on the way
\* back from Payment
PrevCheckoutStepKeepingMethod(a) ==
    LET b == [a EXCEPT !.notification = None]
    IN  IF a.checkout_step = "Cart"
        THEN [b EXCEPT !.current_tab = "Shop"]
        ELSE IF a.checkout_step = "Shipping"
        THEN IF a.shipping_mode = "AddNewAddress"
             THEN [b EXCEPT !.shipping_mode = "SelectAddress",
                            !.active_input = None]
             ELSE [b EXCEPT !.active_input = None,
                            !.checkout_step = "Cart"]
        ELSE IF a.checkout_step = "Payment"
        THEN [b EXCEPT !.shipping_mode = "SelectAddress",
                       !.active_input = None,
                       !.checkout_step = "Shipping"]
        ELSE [b EXCEPT !.active_input =
                           IF a.payment_method = "Ssh" THEN "PaymentName" ELSE None,
                       !.checkout_step = "Payment"]

\* prev_checkout_step opening the card form on the way back from
\* Confirmation whatever the payment method
PrevCheckoutStepAlwaysToCardForm(a) ==
    LET b == [a EXCEPT !.notification = None]
    IN  IF a.checkout_step = "Cart"
        THEN [b EXCEPT !.current_tab = "Shop"]
        ELSE IF a.checkout_step = "Shipping"
        THEN IF a.shipping_mode = "AddNewAddress"
             THEN [b EXCEPT !.shipping_mode = "SelectAddress",
                            !.active_input = None]
             ELSE [b EXCEPT !.active_input = None,
                            !.checkout_step = "Cart"]
        ELSE IF a.checkout_step = "Payment"
        THEN [b EXCEPT !.payment_method = None,
                       !.shipping_mode = "SelectAddress",
                       !.active_input = None,
                       !.checkout_step = "Shipping"]
        ELSE [b EXCEPT !.active_input = "PaymentName",
                       !.checkout_step = "Payment"]

\* App::prev_checkout_step
PrevCheckoutStep(a) ==
    LET b == [a EXCEPT !.notification = None]
    IN  IF a.checkout_step = "Cart"
        THEN [b EXCEPT !.current_tab = "Shop"]
        ELSE IF a.checkout_step = "Shipping"
        THEN IF a.shipping_mode = "AddNewAddress"
             THEN [b EXCEPT !.shipping_mode = "SelectAddress",
                            !.active_input = None]
             ELSE [b EXCEPT !.active_input = None,
                            !.checkout_step = "Cart"]
        ELSE IF a.checkout_step = "Payment"
        THEN [b EXCEPT !.payment_method = None,
                       !.shipping_mode = "SelectAddress",
                       !.active_input = None,
                       !.checkout_step = "Shipping"]
        ELSE [b EXCEPT !.active_input =
                           IF a.payment_method = "Ssh" THEN "PaymentName" ELSE None,
                       !.checkout_step = "Payment"]

\* select_payment_method leaving the active field in place when the browser
\* is chosen
SelectPaymentMethodKeepingField(a) ==
    IF a.payment_option_index = 0
    THEN [a EXCEPT !.active_input = "PaymentName", !.payment_method = "Ssh"]
    ELSE [a EXCEPT !.payment_method = "Browser"]

\* App::select_payment_method
SelectPaymentMethod(a) ==
    IF a.payment_option_index = 0
    THEN [a EXCEPT !.active_input = "PaymentName", !.payment_method = "Ssh"]
    ELSE [a EXCEPT !.active_input = None, !.payment_method = "Browser"]

(***************************************************************************)
(* events.rs: the key dispatch.  A key is [code, ch, ctrl]: code is         *)
(* "Char" for a character key (ch is the character, ctrl the CONTROL        *)
(* modifier) and the key's name otherwise.                                  *)
(***************************************************************************)
CharKey(c) == [code |-> "Char", ch |-> c, ctrl |-> FALSE]

CtrlKey(c) == [code |-> "Char", ch |-> c, ctrl |-> TRUE]

NamedKey(k) == [code |-> k, ch |-> "", ctrl |-> FALSE]

IsChar(key, chars) == key.code = "Char" /\ key.ch \in chars

\* handle_input_mode
HandleInputMode(a, key, save_res) ==
    IF key.code = "Char" THEN HandleInputChar(a, key.ch)
    ELSE IF key.code = "Backspace" THEN HandleInputBackspace(a)
    ELSE IF key.code = "Tab" THEN NextInputField(a)
    ELSE IF key.code = "Enter" THEN NextCheckoutStep(a, save_res)
    ELSE IF key.code = "Esc" THEN PrevCheckoutStep(a)
    ELSE a

\* handle_home_keys
HandleHomeKeys(a, key) ==
    IF key.code = "Enter" \/ IsChar(key, {"s"})
    THEN IF a.products # <<>> THEN [a EXCEPT !.current_tab = "Shop"] ELSE a
    ELSE a

\* i32::min, i32::max
Min(x, y) == IF x <= y THEN x ELSE y

Max(x, y) == IF x >= y THEN x ELSE y

\* handle_shop_keys
HandleShopKeys(a, key) ==
    IF key.code = "Up" \/ IsChar(key, {"k"}) THEN PrevProduct(a)
    ELSE IF key.code = "Down" \/ IsChar(key, {"j"}) THEN NextProduct(a)
    ELSE IF IsChar(key, {"+", "="})
    THEN [a EXCEPT !.product_quantity = Min(@ + 1, MaxProductQuantity)]
    ELSE IF IsChar(key, {"-", "_"})
    THEN [a EXCEPT !.product_quantity = Max(@ - 1, 1)]
    ELSE IF key.code = "Enter" THEN AddToCart(a)
    ELSE a

\* handle_account_keys
HandleAccountKeys(a, key) ==
    IF key.code = "Up" \/ IsChar(key, {"k"}) THEN PrevAccountSection(a)
    ELSE IF key.code = "Down" \/ IsChar(key, {"j"}) THEN NextAccountSection(a)
    ELSE a

\* the '-' arm without the adjustment of the selected index
DecrementSelectedKeepingIndex(a) ==
    IF a.cart_item_index < Len(a.cart)
    THEN [a EXCEPT !.cart = DecrementItem(@, a.cart[a.cart_item_index + 1].product.id)]
    ELSE a

\* the '-' arm of handle_cart_keys (events.rs:132-141)
DecrementSelected(a) ==
    IF a.cart_item_index < Len(a.cart)
    THEN LET items == DecrementItem(a.cart, a.cart[a.cart_item_index + 1].product.id)
         IN  [a EXCEPT !.cart = items,
                       !.cart_item_index =
                           IF @ >= Len(items) /\ items # <<>> THEN Len(items) - 1 ELSE @]
    ELSE a

\* the '+' arm of handle_cart_keys (events.rs:126-131)
IncrementSelected(a) ==
    IF a.cart_item_index < Len(a.cart)
    THEN [a EXCEPT !.cart = IncrementItem(@, a.cart[a.cart_item_index + 1].product.id)]
    ELSE a

\* handle_cart_keys
HandleCartKeys(a, key, save_res) ==
    IF a.checkout_step = "Cart"
    THEN IF key.code = "Up" \/ IsChar(key, {"k"}) THEN PrevCartItem(a)
         ELSE IF key.code = "Down" \/ IsChar(key, {"j"}) THEN NextCartItem(a)
         ELSE IF IsChar(key, {"+", "="}) THEN IncrementSelected(a)
         ELSE IF IsChar(key, {"-", "_"}) THEN DecrementSelected(a)
         ELSE IF key.code = "Enter" \/ IsChar(key, {"c"})
         THEN NextCheckoutStep(a, save_res)
         ELSE IF key.code = "Esc" THEN [a EXCEPT !.current_tab = "Shop"]
         ELSE a
    ELSE IF a.checkout_step = "Shipping" /\ a.shipping_mode = "SelectAddress"
    THEN IF key.code = "Up" \/ IsChar(key, {"k"}) THEN PrevAddressOption(a)
         ELSE IF key.code = "Down" \/ IsChar(key, {"j"}) THEN NextAddressOption(a)
         ELSE IF key.code = "Enter" THEN SelectAddressOption(a)
         ELSE IF key.code \in {"Backspace", "Delete"} \/ IsChar(key, {"x"})
         THEN RemoveSelectedAddress(a)
         ELSE IF key.code = "Esc" THEN PrevCheckoutStep(a)
         ELSE a
    ELSE IF a.checkout_step = "Payment" /\ a.payment_method = None
    THEN IF key.code = "Up" \/ IsChar(key, {"k"}) THEN PrevPaymentOption(a)
         ELSE IF key.code = "Down" \/ IsChar(key, {"j"}) THEN NextPaymentOption(a)
         ELSE IF key.code = "Enter" THEN SelectPaymentMethod(a)
         ELSE IF key.code = "Esc" THEN PrevCheckoutStep(a)
         ELSE a
    ELSE IF key.code = "Esc" THEN PrevCheckoutStep(a)
    ELSE a

\* handle_key_event; products_res and save_res are the answers of the
\* backend calls the key may lead to
HandleKeyEvent(a, t, key, products_res, save_res) ==
    IF a.show_splash
    THEN IF key.code = "Char" /\ key.ch = "q" THEN Quit(a)
         ELSE IF key.code = "Char" /\ key.ch = "c" /\ key.ctrl THEN Quit(a)
         ELSE SkipSplash(a)
    ELSE IF a.active_input # None
    THEN HandleInputMode(a, key, save_res)
    ELSE IF key.code = "Char" /\ key.ch = "q" THEN Quit(a)
    ELSE IF key.code = "Char" /\ key.ch = "c" /\ key.ctrl THEN Quit(a)
    ELSE IF key.code = "Char" /\ key.ch = "r" THEN CycleRegion(a, t, products_res)
    ELSE IF key.code = "Char" /\ key.ch = "s" THEN [a EXCEPT !.current_tab = "Shop"]
    ELSE IF key.code = "Char" /\ key.ch = "a" THEN [a EXCEPT !.current_tab = "Account"]
    ELSE IF key.code = "Char" /\ key.ch = "c" THEN [a EXCEPT !.current_tab = "Cart"]
    ELSE IF a.current_tab = "Home" THEN HandleHomeKeys(a, key)
    ELSE IF a.current_tab = "Shop" THEN HandleShopKeys(a, key)
    ELSE IF a.current_tab = "Account" THEN HandleAccountKeys(a, key)
    ELSE HandleCartKeys(a, key, save_res)

(***************************************************************************)
(* The state machine.  main.rs: App::new(), then load_initial_data, then    *)
(* the event loop, which handles one key event at a time to completion.     *)
(***************************************************************************)
VARIABLES
    app,        \* the App of the session
    pc,         \* main's position: "boot" before load_initial_data, then "events"
    now,        \* Instant::now(), in seconds
    called,     \* the method a driver calling App directly has called last
    cart,       \* a Cart driven directly through its own operations
    panicked,   \* an arithmetic overflow has aborted a debug build
    added,      \* the add_item calls made on `cart`, as <<product id, quantity>>
    last_set,   \* per cache key, when it was last set and to what
    queue,      \* the key events the terminal holds, not yet read
    pending     \* the key event whose handler awaits the backend, if any: <<key>>

vars == <<app, pc, now, called, cart, panicked, added, last_set, queue, pending>>

\* the variables only the drivers of CartAddSpec, CacheSpec and LoopSpec use
aside == <<added, last_set, queue, pending>>

\* the answers of the backend
Ok(v) == [ok |-> TRUE, val |-> v, err |-> ""]

Err(e) == [ok |-> FALSE, val |-> <<>>, err |-> e]

NoAnswer == Err("no call")

\* db.save_address: a created row, the request echoed, or a failure
SaveCreated(id) == [ok |-> TRUE, id |-> id, created_at |-> "t1"]

SaveEchoed == [ok |-> TRUE, id |-> None, created_at |-> None]

SaveFailed == [ok |-> FALSE, id |-> None, created_at |-> None]

SaveAnswers == {SaveCreated("new"), SaveEchoed, SaveFailed}

\* the data of the backend in the checkout specifications
ProductP1 == [id |-> "p1", price_cents |-> 450, region_id |-> "global"]

ProductP2 == [id |-> "p2", price_cents |-> 1200, region_id |-> "global"]

RegionUS == [id |-> "us", name |-> "United States", free_shipping_threshold |-> 40]

Text(c) == <<c>>

\* a saved address of the user: every required field holds the character c,
\* except the city, which holds d
SavedRow(id, c, d) ==
    [id |-> id, user_fingerprint |-> Fingerprint,
     name |-> Text(c), street_1 |-> Text(c), street_2 |-> EmptyText,
     city |-> Text(d), state |-> EmptyText, country |-> Text(c),
     phone |-> Text(c), postal_code |-> Text(c),
     created_at |-> "t0"]

\* a new event: nothing has been sent to the backend yet
Handling(a) == [a EXCEPT !.db_calls = <<>>]

TextLen(form) ==
    LET keys == DOMAIN form
        RECURSIVE Sum(_)
        Sum(ks) == IF ks = {} THEN 0
                   ELSE LET k == CHOOSE x \in ks : TRUE
                        IN  Len(form[k]) + Sum(ks \ {k})
    IN  Sum(keys)

\* the bound on typing: the active field and its form have room
RoomToType(a) ==
    LET f == a.active_input
    IN  IF IsShippingField(f)
        THEN /\ Len(a.shipping_address[ShippingSlot(f)]) < MaxFieldLen
             /\ TextLen(a.shipping_address) < MaxTyped
        ELSE IF IsPaymentField(f)
        THEN /\ Len(a.payment_info[PaymentSlot(f)]) < MaxFieldLen
             /\ TextLen(a.payment_info) < MaxTyped
        ELSE FALSE

\* the bound on quantities: one more Enter in the shop keeps every line
\* within MaxQty
RoomInCart(a) ==
    \A i \in 1..Len(a.cart) : a.cart[i].quantity + a.product_quantity <= MaxQty

Init ==
    /\ app = AppNew
    /\ pc = "boot"
    /\ now = 0
    /\ called = None
    /\ cart = CartNew
    /\ panicked = FALSE
    /\ added = <<>>
    /\ last_set = <<>>
    /\ queue = <<>>
    /\ pending = <<>>

\* main.rs:43: load_initial_data, before the first event
Boot(regions_res, products_res, saved_res) ==
    /\ pc = "boot"
    /\ app' = LoadInitialData(app, now, regions_res, products_res, saved_res)
    /\ pc' = "events"
    /\ UNCHANGED <<now, called, cart, panicked, aside>>

\* events.rs:5-14 and main.rs:67-73: one key press, handled to completion
Press(key, products_res, save_res) ==
    /\ pc = "events"
    /\ app.running
    /\ app' = HandleKeyEvent(Handling(app), now, key, products_res, save_res)
    /\ UNCHANGED <<pc, now, called, cart, panicked, aside>>

InputMode == ~app.show_splash /\ app.active_input # None

\* a character typed into the active field of the shipping form
TypeShippingChar(chars) ==
    /\ InputMode
    /\ IsShippingField(app.active_input)
    /\ RoomToType(app)
    /\ \E c \in chars : Press(CharKey(c), NoAnswer, NoAnswer)

\* a character typed into the active field of the payment form
TypePaymentChar(chars) ==
    /\ InputMode
    /\ IsPaymentField(app.active_input)
    /\ RoomToType(app)
    /\ \E c \in chars : Press(CharKey(c), NoAnswer, NoAnswer)

\* a command character, pressed outside input mode
PressChar(c) ==
    /\ ~InputMode
    /\ Press(CharKey(c), NoAnswer, NoAnswer)

\* Enter; in the shop it adds to the cart, which the quantity bound limits
PressEnter ==
    /\ InputMode \/ app.current_tab # "Shop" \/ RoomInCart(app)
    /\ \E save_res \in SaveAnswers : Press(NamedKey("Enter"), NoAnswer, save_res)

PressEsc == Press(NamedKey("Esc"), NoAnswer, NoAnswer)

PressTab == Press(NamedKey("Tab"), NoAnswer, NoAnswer)

\* Backspace while a field is being edited
PressBackspace ==
    /\ InputMode
    /\ Press(NamedKey("Backspace"), NoAnswer, NoAnswer)

\* Delete, which removes the highlighted saved address
PressDelete == Press(NamedKey("Delete"), NoAnswer, NoAnswer)

PressUp == Press(NamedKey("Up"), NoAnswer, NoAnswer)

PressDown == Press(NamedKey("Down"), NoAnswer, NoAnswer)

(***************************************************************************)
(* Spec: a customer at the keyboard who goes forward through the checkout   *)
(* and enters a new shipping address, typing the letter z.  The backend is  *)
(* healthy at start-up and holds up to three saved addresses of the user.   *)
(***************************************************************************)
SavedAnswersSpec ==
    {Ok(<<>>),
     Ok(<<SavedRow("id1", "z", "y")>>),
     Ok(<<SavedRow("id1", "z", "y"), SavedRow("id2", "z", "z")>>),
     Ok(<<SavedRow("id1", "z", "y"), SavedRow("id2", "y", "z"),
          SavedRow("id3", "y", "y")>>)}

BootSpec ==
    \E saved_res \in SavedAnswersSpec :
        Boot(Ok(<<RegionUS>>), Ok(<<ProductP1>>), saved_res)

Next ==
    \/ BootSpec
    \/ TypeShippingChar({"z"})
    \/ PressChar("s")
    \/ PressChar("c")
    \/ PressEnter
    \/ PressTab
    \/ PressBackspace
    \/ PressDown

Spec == Init /\ [][Next]_vars

(***************************************************************************)
(* PaySpec: a customer at the keyboard with one saved address, who pays by  *)
(* card over the terminal, typing the digit 1, and may go back with Esc.    *)
(***************************************************************************)
BootPay ==
    Boot(Ok(<<RegionUS>>), Ok(<<ProductP1>>), Ok(<<SavedRow("id1", "z", "y")>>))

NextPay ==
    \/ BootPay
    \/ TypePaymentChar({"1"})
    \/ PressChar("s")
    \/ PressChar("c")
    \/ PressEnter
    \/ PressTab
    \/ PressEsc
    \/ PressDown

PaySpec == Init /\ [][NextPay]_vars

(***************************************************************************)
(* ApiSpec: a driver that calls the checkout methods of App directly, in    *)
(* any order and in any state, as a test of app.rs would.  It types the     *)
(* letter z into whichever field is active.  The backend is healthy at      *)
(* start-up and holds no or two saved addresses of the user.                *)
(***************************************************************************)
SavedAnswersApi ==
    {Ok(<<>>), Ok(<<SavedRow("id1", "z", "y"), SavedRow("id2", "y", "z")>>)}

BootApi ==
    \E saved_res \in SavedAnswersApi :
        Boot(Ok(<<RegionUS>>), Ok(<<ProductP1>>), saved_res)

\* one direct call of an App method
Call(method, result) ==
    /\ pc = "events"
    /\ app' = result
    /\ called' = method
    /\ UNCHANGED <<pc, now, cart, panicked, aside>>

CallAddToCart ==
    /\ RoomInCart(app)
    /\ Call("add_to_cart", AddToCart(Handling(app)))

CallNextCheckoutStep ==
    \E save_res \in SaveAnswers :
        Call("next_checkout_step", NextCheckoutStep(Handling(app), save_res))

CallPrevCheckoutStep == Call("prev_checkout_step", PrevCheckoutStep(Handling(app)))

CallSelectAddressOption ==
    Call("select_address_option", SelectAddressOption(Handling(app)))

CallNextAddressOption == Call("next_address_option", NextAddressOption(Handling(app)))

CallSelectPaymentMethod ==
    Call("select_payment_method", SelectPaymentMethod(Handling(app)))

CallNextPaymentOption == Call("next_payment_option", NextPaymentOption(Handling(app)))

CallHandleInputChar ==
    /\ RoomToType(app)
    /\ Call("handle_input_char", HandleInputChar(Handling(app), "z"))

NextApi ==
    \/ BootApi
    \/ CallAddToCart
    \/ CallNextCheckoutStep
    \/ CallPrevCheckoutStep
    \/ CallSelectAddressOption
    \/ CallNextAddressOption
    \/ CallSelectPaymentMethod
    \/ CallNextPaymentOption
    \/ CallHandleInputChar

ApiSpec == Init /\ [][NextApi]_vars

(***************************************************************************)
(* CartSpec: a driver that calls the operations of one Cart directly, with  *)
(* any i32 quantity a caller may pass.  `quantity += n` on an i32 wraps in  *)
(* a build without overflow checks and panics in a build with them: the     *)
(* driver follows both.  Quantities are kept within MaxQty of 0, of         *)
(* i32::MAX and of i32::MIN.                                                *)
(***************************************************************************)
QuantityInWindow(q) ==
    \/ q >= 0 - MaxQty /\ q <= MaxQty
    \/ q >= I32Max - MaxQty
    \/ q <= I32Min + MaxQty

CartInWindow(items) == \A i \in 1..Len(items) : QuantityInWindow(items[i].quantity)

CartProducts == {ProductP1, ProductP2}

CartQuantities == {0 - 1, 0, 1, MaxQty, I32Max}

\* the quantity of the line `quantity += n` is applied to, 0 without a line
QuantityOf(items, id) ==
    IF FindItem(items, id) = 0 THEN 0 ELSE items[FindItem(items, id)].quantity

\* one call of a Cart operation that returns
CartCall(result) ==
    /\ ~panicked
    /\ CartInWindow(result)
    /\ cart' = result
    /\ UNCHANGED <<app, pc, now, called, panicked, aside>>

\* `attempt to add with overflow`: the thread panics and the cart is lost
CartPanic ==
    /\ ~panicked
    /\ panicked' = TRUE
    /\ UNCHANGED <<app, pc, now, called, cart, aside>>

\* cart.add_item(product, quantity) with quantity >= 1
CartAddItem ==
    \E product \in CartProducts, quantity \in {q \in CartQuantities : q >= 1} :
        \/ CartCall(AddItem(cart, product, quantity))
        \/ /\ FindItem(cart, product.id) # 0
           /\ AddOverflows(QuantityOf(cart, product.id), quantity)
           /\ CartPanic

CartRemoveItem ==
    \E product \in CartProducts : CartCall(RemoveItem(cart, product.id))

CartUpdateQuantity ==
    \E product \in CartProducts, quantity \in CartQuantities :
        CartCall(UpdateQuantity(cart, product.id, quantity))

CartIncrementItem ==
    \E product \in CartProducts :
        \/ CartCall(IncrementItem(cart, product.id))
        \/ /\ FindItem(cart, product.id) # 0
           /\ AddOverflows(QuantityOf(cart, product.id), 1)
           /\ CartPanic

CartDecrementItem ==
    \E product \in CartProducts : CartCall(DecrementItem(cart, product.id))

CartClearAll == CartCall(CartClear(cart))

NextCart ==
    \/ CartAddItem
    \/ CartRemoveItem
    \/ CartUpdateQuantity
    \/ CartIncrementItem
    \/ CartDecrementItem
    \/ CartClearAll

CartSpec == Init /\ [][NextCart]_vars

(***************************************************************************)
(* CartAddSpec: a driver that only adds to an empty Cart, up to MaxAdds     *)
(* times, and records its calls in `added`.  A call that overflows either   *)
(* wraps or panics, as in CartSpec.                                         *)
(***************************************************************************)
\* cart.add_item(product, quantity) returns
CartAddReturns(product, quantity) ==
    /\ cart' = AddItem(cart, product, quantity)
    /\ added' = Append(added, <<product.id, quantity>>)
    /\ UNCHANGED <<app, pc, now, called, panicked, last_set, queue, pending>>

\* cart.add_item(product, quantity) panics on `attempt to add with overflow`
CartAddPanics(product, quantity) ==
    /\ FindItem(cart, product.id) # 0
    /\ AddOverflows(QuantityOf(cart, product.id), quantity)
    /\ panicked' = TRUE
    /\ UNCHANGED <<app, pc, now, called, cart, aside>>

CartAddRecorded ==
    /\ ~panicked
    /\ Len(added) < MaxAdds
    /\ \E product \in CartProducts, quantity \in {q \in CartQuantities : q >= 1} :
           \/ CartAddReturns(product, quantity)
           \/ CartAddPanics(product, quantity)

CartAddSpec == Init /\ [][CartAddRecorded]_vars

(***************************************************************************)
(* CacheSpec: a driver that sets entries of the session's DataCache         *)
(* directly while the clock moves through Instants, and records in          *)
(* `last_set` when each key was last set and to what.                       *)
(***************************************************************************)
\* the instants the clock shows: either side of 300 s and of 1800 s after a
\* set at 0, at 1 or at 300
Instants == {0, 1, 299, 300, 301, 1799, 1800, 2099, 2100}

RegionIds == {"global", "us"}

ProductLists == {<<>>, <<ProductP1>>, <<ProductP1, ProductP2>>}

RegionLists == {<<RegionUS>>, <<RegionDefault, RegionUS>>}

\* Instant::now() moves on
Tick ==
    /\ \E t \in Instants : t > now /\ now' = t
    /\ UNCHANGED <<app, pc, called, cart, panicked, aside>>

Recorded(key, data) ==
    [k \in (DOMAIN last_set) \cup {key} |->
        IF k = key THEN [at |-> now, data |-> data] ELSE last_set[k]]

\* one direct call of a setter of app.cache
CacheCall(dc, key, data) ==
    /\ app' = [app EXCEPT !.cache = dc]
    /\ last_set' = Recorded(key, data)
    /\ UNCHANGED <<pc, now, called, cart, panicked, added, queue, pending>>

CallSetProducts ==
    \E region_id \in RegionIds, products \in ProductLists :
        CacheCall(SetProducts(app.cache, region_id, products, now),
                  ProductsKey(region_id), products)

CallSetRegions ==
    \E regions \in RegionLists :
        CacheCall(SetRegions(app.cache, regions, now), RegionsKey, regions)

NextCache ==
    \/ Tick
    \/ CallSetProducts
    \/ CallSetRegions

CacheSpec == Init /\ [][NextCache]_vars

(***************************************************************************)
(* LoadSpec: after load_initial_data, a driver that calls load_regions,     *)
(* load_products and cycle_region directly while the clock moves through    *)
(* Instants.  The backend answers a products request with products of the   *)
(* region asked for (supabase.rs:44-50) or fails; it answers a regions      *)
(* request with no region, with regions that include or leave out "global", *)
(* or fails.                                                                *)
(***************************************************************************)
Timeout == Err("timeout")

ProductIn(product, region_id) == [product EXCEPT !.region_id = region_id]

ProductsAnswers(region_id) ==
    {Ok(<<ProductIn(ProductP1, region_id)>>),
     Ok(<<ProductIn(ProductP1, region_id), ProductIn(ProductP2, region_id)>>),
     Timeout}

RegionsAnswers ==
    {Ok(<<>>), Ok(<<RegionUS>>), Ok(<<RegionDefault, RegionUS>>), Timeout}

BootLoad ==
    \E regions_res \in RegionsAnswers, products_res \in ProductsAnswers(RegionDefault.id) :
        Boot(regions_res, products_res, Ok(<<>>))

CallLoadRegions ==
    \E res \in RegionsAnswers :
        Call("load_regions", LoadRegions(Handling(app), now, res))

CallLoadProducts ==
    \E res \in ProductsAnswers(app.region.id) :
        Call("load_products", LoadProducts(Handling(app), now, res))

\* cycle_region; the request it makes is for the region it moves to
CallCycleRegion ==
    \E res \in ProductsAnswers(CycleRegion(Handling(app), now, NoAnswer).region.id) :
        Call("cycle_region", CycleRegion(Handling(app), now, res))

\* the instants at which the loads are called: the start, the expiry of a
\* products entry set at the start, the expiry of a regions entry set then
LoadInstants == {0, ProductsTtl, RegionsTtl}

LoadTick == Tick /\ now' \in LoadInstants

NextLoad ==
    \/ BootLoad
    \/ CallLoadRegions
    \/ CallLoadProducts
    \/ CallCycleRegion
    \/ LoadTick

LoadSpec == Init /\ [][NextLoad]_vars

(***************************************************************************)
(* LoopSpec: the event loop of run_app with the backend's latency made      *)
(* visible.  The terminal holds the keys pressed in `queue`; the loop reads *)
(* one when it is at event::poll, and handle_key_event(app, key).await      *)
(* either finishes at once or sends a request and stays suspended          *)
(* (`pending`) until the backend answers.  A suspended handler has the App  *)
(* borrowed mutably; the fields it has written so far are seen by no one,   *)
(* so `app` shows the request in flight and takes the handler's writes when *)
(* the answer arrives.                                                      *)
(***************************************************************************)
LoopKeys ==
    {CharKey("r"), CharKey("s"), CharKey("c"), NamedKey("Enter"), NamedKey("Delete")}

BootLoop ==
    Boot(Ok(<<RegionDefault, RegionUS>>), Ok(<<ProductP1>>),
         Ok(<<SavedRow("id1", "z", "y")>>))

\* a key is pressed; the terminal buffers it
KeyArrives ==
    /\ Len(queue) < MaxQueue
    /\ \E key \in LoopKeys : queue' = Append(queue, key)
    /\ UNCHANGED <<app, pc, now, called, cart, panicked, added, last_set, pending>>

\* the requests handle_key_event sends for this key in this state
InFlight(a, key) == HandleKeyEvent(Handling(a), now, key, NoAnswer, SaveFailed).db_calls

\* the bound on what the key may grow: the cart and the typed text
RoomFor(a, key) ==
    IF a.show_splash THEN TRUE
    ELSE IF a.active_input # None THEN key.code # "Char" \/ RoomToType(a)
    ELSE a.current_tab = "Shop" /\ key.code = "Enter" => RoomInCart(a)

\* the loop has returned from the previous handle_events and is at the poll
\* even though a handler still awaits its answer
LoopAtPollWhileAwaiting == pc = "events" /\ app.running

\* main.rs:67-73: the loop is at event::poll only when the previous
\* handle_events, and the handler it awaited, have returned
LoopAtPoll == pc = "events" /\ app.running /\ pending = <<>>

\* events.rs:6-9: poll, read one key event, handle_key_event(app, key).await
ReadKey ==
    /\ LoopAtPoll
    /\ queue # <<>>
    /\ RoomFor(app, Head(queue))
    /\ queue' = Tail(queue)
    /\ LET key == Head(queue)
           sent == InFlight(app, key)
       IN  IF sent = <<>>
           THEN /\ app' = HandleKeyEvent(Handling(app), now, key, NoAnswer, SaveFailed)
                /\ pending' = <<>>
           ELSE /\ app' = [app EXCEPT !.db_calls = sent]
                /\ pending' = <<key>>
    /\ UNCHANGED <<pc, now, called, cart, panicked, added, last_set>>

\* the backend answers; the suspended handler runs to its end
Answer ==
    /\ pending # <<>>
    /\ \E products_res \in ProductsAnswers(CycleRegion(Handling(app), now, NoAnswer).region.id),
          save_res \in SaveAnswers :
           app' = HandleKeyEvent(Handling(app), now, pending[1], products_res, save_res)
    /\ pending' = <<>>
    /\ UNCHANGED <<pc, now, called, cart, panicked, added, last_set, queue>>

NextLoop ==
    \/ BootLoop
    \/ KeyArrives
    \/ ReadKey
    \/ Answer

LoopSpec == Init /\ [][NextLoop]_vars

(***************************************************************************)
(* SavedSpec: a driver that loads, saves and deletes saved addresses by     *)
(* direct calls.  The backend holds up to three rows of the user, or fails  *)
(* to list them; the customer enters one of two addresses in the form.      *)
(***************************************************************************)
SavedAnswersSaved ==
    {Ok(<<>>),
     Ok(<<SavedRow("id1", "z", "y")>>),
     Ok(<<SavedRow("id1", "z", "y"), SavedRow("id2", "y", "z"),
          SavedRow("id3", "y", "y")>>),
     Timeout}

BootSaved ==
    \E saved_res \in SavedAnswersSaved :
        Boot(Ok(<<RegionUS>>), Ok(<<ProductP1>>), saved_res)

CallLoadSavedAddresses ==
    \E res \in SavedAnswersSaved :
        Call("load_saved_addresses", LoadSavedAddresses(Handling(app), res))

\* handle_input_char(c), then next_input_field
Typed(a, c) == NextInputField(HandleInputChar(a, c))

\* the empty form filled from its first field: c in name, street, country,
\* phone and postal code, d in city; street line 2 and state are passed over
TypeAddress(a, c, d) ==
    HandleInputChar(
        Typed(Typed(NextInputField(Typed(NextInputField(Typed(Typed(a, c), c)), d)), c), c),
        c)

CallTypeAddress ==
    /\ app.checkout_step = "Shipping"
    /\ app.shipping_mode = "AddNewAddress"
    /\ app.active_input = "Name"
    /\ app.shipping_address = ShippingAddressDefault
    /\ \E d \in {"y", "z"} :
           Call("handle_input_char", TypeAddress(Handling(app), "z", d))

CallRemoveSelectedAddress ==
    Call("remove_selected_address", RemoveSelectedAddress(Handling(app)))

\* the one product the customer checks out with
CallAddFirstItem == CartIsEmpty(app.cart) /\ CallAddToCart

NextSaved ==
    \/ BootSaved
    \/ CallLoadSavedAddresses
    \/ CallAddFirstItem
    \/ CallNextCheckoutStep
    \/ CallPrevCheckoutStep
    \/ CallSelectAddressOption
    \/ CallNextAddressOption
    \/ CallTypeAddress
    \/ CallRemoveSelectedAddress

SavedSpec == Init /\ [][NextSaved]_vars

(***************************************************************************)
(* BackSpec: a driver that goes forward and back through the whole          *)
(* checkout by direct calls: it picks a saved address or enters a new one,  *)
(* picks either payment method, fills the card form and confirms, and may   *)
(* retreat from any step.  The backend holds one saved address.             *)
(***************************************************************************)
BootBack ==
    Boot(Ok(<<RegionUS>>), Ok(<<ProductP1>>), Ok(<<SavedRow("id1", "z", "y")>>))

\* the empty card form filled from its first field: z in name and email, the
\* digit 1 in card number, expiry month, expiry year and cvv
TypeCard(a) ==
    HandleInputChar(
        Typed(Typed(Typed(Typed(Typed(a, "z"), "z"), "1"), "1"), "1"),
        "1")

CallTypeCard ==
    /\ app.checkout_step = "Payment"
    /\ app.payment_method = "Ssh"
    /\ app.active_input = "PaymentName"
    /\ app.payment_info = PaymentInfoDefault
    /\ Call("handle_input_char", TypeCard(Handling(app)))

NextBack ==
    \/ BootBack
    \/ CallAddFirstItem
    \/ CallNextCheckoutStep
    \/ CallPrevCheckoutStep
    \/ CallSelectAddressOption
    \/ CallNextAddressOption
    \/ CallTypeAddress
    \/ CallSelectPaymentMethod
    \/ CallNextPaymentOption
    \/ CallTypeCard

BackSpec == Init /\ [][NextBack]_vars

(***************************************************************************)
(* FieldSpec: a driver that edits the two forms by direct calls: it opens   *)
(* the address form or the card form, types the letter z, deletes, moves    *)
(* from field to field, advances into the gates and retreats.  The backend  *)
(* holds no or one saved address.                                           *)
(***************************************************************************)
BootField ==
    \E saved_res \in {Ok(<<>>), Ok(<<SavedRow("id1", "z", "y")>>)} :
        Boot(Ok(<<RegionUS>>), Ok(<<ProductP1>>), saved_res)

\* the characters typed into the two forms; an address copied from a saved
\* row is not typed
Keyed(a) ==
    TextLen(a.payment_info)
        + (IF \E i \in 1..Len(a.saved_addresses) :
                  a.shipping_address = ToShipping(a.saved_addresses[i])
           THEN 0 ELSE TextLen(a.shipping_address))

\* handle_input_char of the letter z
CallTypeChar ==
    /\ Keyed(app) < MaxKeyed
    /\ Call("handle_input_char", HandleInputChar(Handling(app), "z"))

CallHandleInputBackspace ==
    Call("handle_input_backspace", HandleInputBackspace(Handling(app)))

CallNextInputField == Call("next_input_field", NextInputField(Handling(app)))

CallClearNotification == Call("clear_notification", ClearNotification(Handling(app)))

\* Enter in the list of addresses (events.rs:155)
ChooseAddressOption ==
    /\ app.checkout_step = "Shipping"
    /\ app.shipping_mode = "SelectAddress"
    /\ CallSelectAddressOption

\* Enter in the list of payment methods (events.rs:167)
ChoosePaymentMethod ==
    /\ app.checkout_step = "Payment"
    /\ app.payment_method = None
    /\ CallSelectPaymentMethod

NextField ==
    \/ BootField
    \/ CallAddFirstItem
    \/ ChooseAddressOption
    \/ ChoosePaymentMethod
    \/ CallNextCheckoutStep
    \/ CallPrevCheckoutStep
    \/ CallTypeChar
    \/ CallHandleInputBackspace
    \/ CallNextInputField
    \/ CallClearNotification

FieldSpec == Init /\ [][NextField]_vars

(***************************************************************************)
(* TypeSpec: a driver that reaches the address form and the card form and   *)
(* types without limit into the digit-only fields of the card: the digit 1  *)
(* and the letter z, with backspace and moves from field to field.  Into    *)
(* the free-text fields, where the code pushes any character, it types the  *)
(* letter z, MaxKeyed times in all.  The backend holds one saved address.   *)
(***************************************************************************)
DigitFields == {"CardNumber", "ExpiryMonth", "ExpiryYear", "Cvv"}

\* the characters typed into free-text fields
TextKeyed(a) ==
    Len(a.payment_info.name) + Len(a.payment_info.email)
        + (IF \E i \in 1..Len(a.saved_addresses) :
                  a.shipping_address = ToShipping(a.saved_addresses[i])
           THEN 0 ELSE TextLen(a.shipping_address))

\* next_checkout_step from the cart to the list of addresses
AdvanceToShipping == app.checkout_step = "Cart" /\ CallNextCheckoutStep

\* handle_input_char(z) with a free-text field or no field active
TypeText ==
    /\ app.active_input \notin DigitFields
    /\ TextKeyed(app) < MaxKeyed
    /\ Call("handle_input_char", HandleInputChar(Handling(app), "z"))

\* handle_input_char with a digit-only field active
TypeDigits ==
    /\ app.active_input \in DigitFields
    /\ \E c \in {"1", "z"} :
           Call("handle_input_char", HandleInputChar(Handling(app), c))

NextType ==
    \/ BootBack
    \/ CallAddFirstItem
    \/ AdvanceToShipping
    \/ CallNextAddressOption
    \/ ChooseAddressOption
    \/ ChoosePaymentMethod
    \/ CallNextInputField
    \/ TypeText
    \/ TypeDigits
    \/ CallHandleInputBackspace

TypeSpec == Init /\ [][NextType]_vars

(***************************************************************************)
(* EditSpec: a driver that edits the two forms with the letter z and the    *)
(* digits 1 and 2, at most MaxEdited characters at a time, so that a field  *)
(* holds different characters and a backspace shows which one it takes.     *)
(***************************************************************************)
MaxEdited == 3

EditKeys == {"z", "1", "2"}

TypeAnyChar ==
    /\ Keyed(app) < MaxEdited
    /\ \E c \in EditKeys :
           Call("handle_input_char", HandleInputChar(Handling(app), c))

NextEdit ==
    \/ BootField
    \/ CallAddFirstItem
    \/ AdvanceToShipping
    \/ ChooseAddressOption
    \/ ChoosePaymentMethod
    \/ CallNextInputField
    \/ TypeAnyChar
    \/ CallHandleInputBackspace

EditSpec == Init /\ [][NextEdit]_vars

(***************************************************************************)
(* NavSpec: a customer at the keyboard who moves through the lists of the   *)
(* interface and checks out by card.  The catalog holds no or three         *)
(* products, the user no or two saved addresses.  Every key goes through    *)
(* handle_key_event; `called` records the key.                              *)
(***************************************************************************)
ProductP3 == [id |-> "p3", price_cents |-> 300, region_id |-> "global"]

BootNav ==
    \/ Boot(Ok(<<RegionUS>>), Ok(<<>>), Ok(<<>>))
    \/ Boot(Ok(<<RegionUS>>), Ok(<<ProductP1, ProductP2, ProductP3>>),
            Ok(<<SavedRow("id1", "z", "y"), SavedRow("id2", "y", "z")>>))

KeyName(key) == IF key.code = "Char" THEN key.ch ELSE key.code

\* events.rs:5-14: one key press handled to completion.  No address is typed
\* in NavSpec, so that no key leads to save_address.
Struck(a, key) == HandleKeyEvent(Handling(a), now, key, NoAnswer, SaveFailed)

Stroke(key) ==
    /\ pc = "events"
    /\ app.running
    /\ app' = Struck(app, key)
    /\ called' = KeyName(key)
    /\ UNCHANGED <<pc, now, cart, panicked, aside>>

\* the tab shortcuts s and c, and the '-' of the cart
StrokeCommand == ~InputMode /\ \E c \in {"s", "c", "-"} : Stroke(CharKey(c))

\* the account tab, which the customer of the empty catalog visits
StrokeAccount ==
    /\ ~InputMode
    /\ app.products = <<>>
    /\ Stroke(CharKey("a"))

\* Enter; in the shop it adds one unit of a product not yet in the cart
StrokeEnter ==
    /\ \/ InputMode
       \/ app.current_tab # "Shop"
       \/ /\ app.selected_product_index < Len(app.products)
          /\ FindItem(app.cart, app.products[app.selected_product_index + 1].id) = 0
    /\ Stroke(NamedKey("Enter"))

StrokeUp == ~InputMode /\ Stroke(NamedKey("Up"))

StrokeDown == ~InputMode /\ Stroke(NamedKey("Down"))

StrokeEsc == Stroke(NamedKey("Esc"))

StrokeDelete == ~InputMode /\ Stroke(NamedKey("Delete"))

\* the card form filled in one burst of keys: the digit 1 in each of the six
\* fields, Tab in between
CardKeys ==
    <<CharKey("1"), NamedKey("Tab"), CharKey("1"), NamedKey("Tab"),
      CharKey("1"), NamedKey("Tab"), CharKey("1"), NamedKey("Tab"),
      CharKey("1"), NamedKey("Tab"), CharKey("1")>>

RECURSIVE StruckAll(_, _)
StruckAll(a, keys) ==
    IF keys = <<>> THEN a ELSE StruckAll(Struck(a, Head(keys)), Tail(keys))

StrokeCard ==
    /\ pc = "events"
    /\ app.running
    /\ app.active_input = "PaymentName"
    /\ app.payment_info = PaymentInfoDefault
    /\ app' = StruckAll(app, CardKeys)
    /\ called' = "1"
    /\ UNCHANGED <<pc, now, cart, panicked, aside>>

NextNav ==
    \/ BootNav
    \/ StrokeCommand
    \/ StrokeAccount
    \/ StrokeEnter
    \/ StrokeUp
    \/ StrokeDown
    \/ StrokeEsc
    \/ StrokeDelete
    \/ StrokeCard

NavSpec == Init /\ [][NextNav]_vars

(***************************************************************************)
(* Properties of the checkout methods, checked under ApiSpec.  A step of    *)
(* ApiSpec with called' = m is one call of method m: app is the App before  *)
(* the call and app' the App after it.                                      *)
(***************************************************************************)
Advanced == called' = "next_checkout_step"

Selected == called' = "select_address_option"

InSelectAddress == app.checkout_step = "Shipping" /\ app.shipping_mode = "SelectAddress"

InPaymentMenu == app.checkout_step = "Payment" /\ app.payment_method = None

\* C2: advancing from step Cart with a non-empty cart lands in Shipping with
\* sub-mode SelectAddress, address index 0 and no active field; with an empty
\* cart the step stays Cart and the sub-mode, the selection indices, the
\* active field and both drafts are left as they were.
C2_AdvanceFromCart ==
    [][(Advanced /\ app.checkout_step = "Cart") =>
          IF app.cart # <<>>
          THEN /\ app'.checkout_step = "Shipping"
               /\ app'.shipping_mode = "SelectAddress"
               /\ app'.address_select_index = 0
               /\ app'.active_input = None
          ELSE /\ app'.checkout_step = "Cart"
               /\ app'.shipping_mode = app.shipping_mode
               /\ app'.address_select_index = app.address_select_index
               /\ app'.payment_option_index = app.payment_option_index
               /\ app'.cart_item_index = app.cart_item_index
               /\ app'.active_input = app.active_input
               /\ app'.shipping_address = app.shipping_address
               /\ app'.payment_info = app.payment_info]_vars

\* C2 witness: an advance has just entered Shipping with a stocked cart and
\* saved addresses on offer
C2_EnteredShipping ==
    /\ called = "next_checkout_step"
    /\ app.checkout_step = "Shipping"
    /\ app.shipping_mode = "SelectAddress"
    /\ app.address_select_index = 0
    /\ app.active_input = None
    /\ app.cart # <<>>
    /\ app.saved_addresses # <<>>

\* C5: in Payment with method Browser, advancing moves to Confirmation whatever
\* the payment form holds, and leaves no notification.
C5_BrowserAdvances ==
    [][(Advanced /\ app.checkout_step = "Payment" /\ app.payment_method = "Browser") =>
          /\ app'.checkout_step = "Confirmation"
          /\ app'.notification = None
          /\ app'.payment_info = app.payment_info]_vars

\* C5 witness: an advance has reached Confirmation by Browser with an empty form
C5_ConfirmedByBrowser ==
    /\ called = "next_checkout_step"
    /\ app.checkout_step = "Confirmation"
    /\ app.payment_method = "Browser"
    /\ app.payment_info = PaymentInfoDefault

\* C6: in Shipping/SelectAddress, selecting with the highlighted index i below
\* the number of saved addresses copies the eight address fields of saved
\* address i into the working address, clears the active field and moves the
\* step to Payment, without entering AddNewAddress and without the gate's
\* notification.
C6_SelectSaved ==
    [][(Selected /\ InSelectAddress
            /\ app.address_select_index < Len(app.saved_addresses)) =>
          LET s == app.saved_addresses[app.address_select_index + 1]
          IN  /\ app'.shipping_address.name = s.name
              /\ app'.shipping_address.street_1 = s.street_1
              /\ app'.shipping_address.street_2 = s.street_2
              /\ app'.shipping_address.city = s.city
              /\ app'.shipping_address.state = s.state
              /\ app'.shipping_address.country = s.country
              /\ app'.shipping_address.phone = s.phone
              /\ app'.shipping_address.postal_code = s.postal_code
              /\ DOMAIN app'.shipping_address = DOMAIN ShippingAddressDefault
              /\ app'.active_input = None
              /\ app'.checkout_step = "Payment"
              /\ app'.shipping_mode = "SelectAddress"
              /\ app'.notification = app.notification]_vars

\* C6 witness: the second saved address has just been selected and copied
C6_SecondSavedCopied ==
    /\ called = "select_address_option"
    /\ app.checkout_step = "Payment"
    /\ app.address_select_index = 1
    /\ Len(app.saved_addresses) = 2
    /\ app.shipping_address = ToShipping(app.saved_addresses[2])
    /\ app.active_input = None

\* C7: in Shipping/SelectAddress, selecting with the highlighted index equal to
\* the number of saved addresses switches the sub-mode to AddNewAddress, empties
\* every field of the working address, makes name the active field and leaves
\* the step at Shipping.
C7_SelectAddNew ==
    [][(Selected /\ InSelectAddress
            /\ app.address_select_index = Len(app.saved_addresses)) =>
          /\ app'.shipping_mode = "AddNewAddress"
          /\ \A f \in DOMAIN app'.shipping_address :
                 app'.shipping_address[f] = EmptyText
          /\ app'.active_input = "Name"
          /\ app'.checkout_step = "Shipping"]_vars

\* C7 witness: the entry after two saved addresses has just been selected
C7_FormOpened ==
    /\ called = "select_address_option"
    /\ app.checkout_step = "Shipping"
    /\ app.shipping_mode = "AddNewAddress"
    /\ app.address_select_index = 2
    /\ Len(app.saved_addresses) = 2
    /\ app.active_input = "Name"

\* what C8 lists, the notification apart
MenuFrame(a) ==
    <<a.checkout_step, a.shipping_mode, a.address_select_index,
      a.payment_option_index, a.cart_item_index, a.payment_method,
      a.active_input, a.shipping_address, a.payment_info, a.cart>>

\* C8 as stated: a bare advance in Shipping/SelectAddress or in Payment with
\* the method unset leaves step, sub-mode, selection indices, payment method,
\* active field, working address, payment info, cart and notification
\* unchanged.
C8_BareAdvanceChangesNothing ==
    [][(Advanced /\ (InSelectAddress \/ InPaymentMenu)) =>
          /\ MenuFrame(app') = MenuFrame(app)
          /\ app'.notification = app.notification]_vars

\* C8 amended: a bare advance in Shipping/SelectAddress or in Payment with the
\* method unset leaves step, sub-mode, selection indices, payment method,
\* active field, working address, payment info and cart unchanged, and clears
\* the notification.
C8_BareAdvanceOnlyClearsNotification ==
    [][(Advanced /\ (InSelectAddress \/ InPaymentMenu)) =>
          /\ MenuFrame(app') = MenuFrame(app)
          /\ app'.notification = None]_vars

\* C8 witness: a bare advance has just run in Payment with the method unset,
\* reached from a saved address and with a draft of the card form present
C8_AdvancedInPaymentMenu ==
    /\ called = "next_checkout_step"
    /\ app.checkout_step = "Payment"
    /\ app.payment_method = None
    /\ app.notification = None
    /\ app.shipping_address # ShippingAddressDefault

(***************************************************************************)
(* Properties of the address form, checked under Spec.  A step of Spec      *)
(* satisfying EnterPressed is the handling of one Enter key event.          *)
(***************************************************************************)
EnterPressed ==
    /\ pc = "events"
    /\ \E save_res \in SaveAnswers :
           app' = HandleKeyEvent(Handling(app), now, NamedKey("Enter"), NoAnswer, save_res)

InAddNewAddress ==
    app.checkout_step = "Shipping" /\ app.shipping_mode = "AddNewAddress"

\* the fields the gate of the address form requires, in its order, and the
\* words the notification uses for them
RequiredShipping == <<"name", "street_1", "city", "country", "phone", "postal_code">>

ShippingWords == <<"name", "street", "city", "country", "phone", "postal code">>

EmptyRequiredShipping(a) ==
    {i \in 1..Len(RequiredShipping) : a.shipping_address[RequiredShipping[i]] = EmptyText}

FirstOf(indices) == CHOOSE i \in indices : \A j \in indices : i <= j

\* C3: in Shipping/AddNewAddress, when one of name, street1, city, country,
\* phone, postalCode is empty, advancing keeps step and sub-mode, sends nothing
\* to the backend and stores no address, leaves the working address and the
\* active field unchanged, and sets the notification to "<field> can't be
\* empty" for the first empty field in that order.
C3_GateBlocks ==
    [][(EnterPressed /\ InAddNewAddress /\ EmptyRequiredShipping(app) # {}) =>
          /\ app'.checkout_step = "Shipping"
          /\ app'.shipping_mode = "AddNewAddress"
          /\ app'.db_calls = <<>>
          /\ app'.saved_addresses = app.saved_addresses
          /\ app'.shipping_address = app.shipping_address
          /\ app'.active_input = app.active_input
          /\ app'.notification =
                 ShippingWords[FirstOf(EmptyRequiredShipping(app))] \o " can't be empty"]_vars

\* C3 witness: name filled and street line 1 empty, the gate has just answered
C3_StreetMissing ==
    /\ app.checkout_step = "Shipping"
    /\ app.shipping_mode = "AddNewAddress"
    /\ app.shipping_address.name # EmptyText
    /\ app.shipping_address.street_1 = EmptyText
    /\ app.notification = "street can't be empty"

\* the dedup rule as C9 words it
MatchesSaved(a) ==
    \E i \in 1..Len(a.saved_addresses) :
        /\ a.saved_addresses[i].street_1 = a.shipping_address.street_1
        /\ a.saved_addresses[i].city = a.shipping_address.city
        /\ a.saved_addresses[i].postal_code = a.shipping_address.postal_code

\* C9: when the gate of the address form passes, one save request is sent
\* unless a saved address matches the working one on street1, city and postal
\* code or three addresses are saved already, and then none is sent; whether
\* the save was skipped, succeeded or failed, the active field is cleared and
\* the step becomes Payment.
C9_GatePasses ==
    [][(EnterPressed /\ InAddNewAddress /\ EmptyRequiredShipping(app) = {}) =>
          /\ app'.db_calls =
                 IF MatchesSaved(app) \/ Len(app.saved_addresses) >= 3
                 THEN <<>> ELSE <<"save_address">>
          /\ app'.active_input = None
          /\ app'.checkout_step = "Payment"]_vars

\* C9 witness: the gate has passed, the save was sent though a saved address
\* shares street line 1 and postal code with the new one, and it failed
C9_SaveFailedYetPayment ==
    /\ app.checkout_step = "Payment"
    /\ app.shipping_mode = "AddNewAddress"
    /\ app.active_input = None
    /\ app.db_calls = <<"save_address">>
    /\ Len(app.saved_addresses) = 1
    /\ app.saved_addresses[1].street_1 = app.shipping_address.street_1
    /\ app.saved_addresses[1].postal_code = app.shipping_address.postal_code

(***************************************************************************)
(* Properties of the payment step and of the end of a checkout cycle,       *)
(* checked under PaySpec.                                                   *)
(***************************************************************************)
RequiredPayment ==
    <<"name", "email", "card_number", "expiry_month", "expiry_year", "cvv">>

PaymentWords ==
    <<"name", "email", "card number", "expiry month", "expiry year", "cvv">>

EmptyRequiredPayment(a) ==
    {i \in 1..Len(RequiredPayment) : a.payment_info[RequiredPayment[i]] = EmptyText}

\* C1 as stated: advancing from Confirmation empties the cart, sets the step to
\* Cart and restores the initial checkout state: no active field, payment
\* method unset, shipping sub-mode SelectAddress.
C1_ConfirmationLoopsToInitial ==
    [][(EnterPressed /\ app.checkout_step = "Confirmation") =>
          /\ app'.cart = <<>>
          /\ app'.checkout_step = "Cart"
          /\ app'.active_input = AppNew.active_input
          /\ app'.payment_method = AppNew.payment_method
          /\ app'.shipping_mode = AppNew.shipping_mode]_vars

\* C4: in Payment with method Ssh, advancing reaches Confirmation exactly when
\* name, email, card number, expiry month, expiry year and cvv are all
\* non-empty; otherwise the step stays Payment, the method stays Ssh and the
\* notification names the first empty field in that order.
C4_PaymentGate ==
    [][(EnterPressed /\ app.checkout_step = "Payment" /\ app.payment_method = "Ssh") =>
          IF EmptyRequiredPayment(app) = {}
          THEN app'.checkout_step = "Confirmation"
          ELSE /\ app'.checkout_step = "Payment"
               /\ app'.payment_method = "Ssh"
               /\ app'.notification =
                      PaymentWords[FirstOf(EmptyRequiredPayment(app))]
                          \o " can't be empty"]_vars

\* C4 witness: the gate has just refused a form whose first gap is the expiry
\* month, the expiry year being empty too
C4_ExpiryMonthMissing ==
    /\ app.checkout_step = "Payment"
    /\ app.payment_method = "Ssh"
    /\ app.payment_info.card_number # EmptyText
    /\ app.payment_info.expiry_month = EmptyText
    /\ app.payment_info.expiry_year = EmptyText
    /\ app.notification = "expiry month can't be empty"

(***************************************************************************)
(* Properties of Cart, checked under CartSpec.                              *)
(***************************************************************************)
\* C10 as stated: after any sequence of add (quantity >= 1), remove,
\* setQuantity, increment, decrement and clear, the cart holds at most one line
\* per product id and every line has a quantity of at least 1.
C10_OneLinePerProductQuantityPositive ==
    /\ \A i, j \in 1..Len(cart) :
           cart[i].product.id = cart[j].product.id => i = j
    /\ \A i \in 1..Len(cart) : cart[i].quantity >= 1

(***************************************************************************)
(* Properties of add-only carts, checked under CartAddSpec.                 *)
(***************************************************************************)
\* the product ids of the calls, each once, in the order of their first call
RECURSIVE FirstAdded(_)
FirstAdded(calls) ==
    IF calls = <<>> THEN <<>>
    ELSE LET before == FirstAdded(SubSeq(calls, 1, Len(calls) - 1))
             id == calls[Len(calls)][1]
         IN  IF \E i \in 1..Len(before) : before[i] = id THEN before
             ELSE Append(before, id)

\* the sum of the quantities the calls added for id, as a mathematical
\* integer: `fits` tells whether it is at most i32::MAX, and `sum` is the sum
\* when it fits
RECURSIVE TotalAdded(_, _)
TotalAdded(calls, id) ==
    IF calls = <<>> THEN [fits |-> TRUE, sum |-> 0]
    ELSE LET before == TotalAdded(SubSeq(calls, 1, Len(calls) - 1), id)
             call == calls[Len(calls)]
         IN  IF call[1] # id THEN before
             ELSE IF ~before.fits \/ AddOverflows(before.sum, call[2])
             THEN [fits |-> FALSE, sum |-> 0]
             ELSE [fits |-> TRUE, sum |-> before.sum + call[2]]

\* C11 as stated: after any sequence of add(p, q) with q >= 1 on an empty cart,
\* the cart holds exactly one line per product id added, in the order in which
\* the ids were first added, and the quantity of each line is the sum of the
\* quantities added for its id.
C11_AddsMergeInOrder ==
    LET ids == FirstAdded(added)
    IN  /\ Len(cart) = Len(ids)
        /\ \A i \in 1..Len(cart) :
               /\ cart[i].product.id = ids[i]
               /\ TotalAdded(added, ids[i]).fits
               /\ cart[i].quantity = TotalAdded(added, ids[i]).sum

(***************************************************************************)
(* Properties of Cart, checked under CartSpec.  A step of CartSpec with     *)
(* cart' = DecrementItem(cart, id) is one call of decrement_item(id).       *)
(***************************************************************************)
LinesOf(items, id) == {i \in 1..Len(items) : items[i].product.id = id}

WithoutLine(items, i) == SubSeq(items, 1, i - 1) \o SubSeq(items, i + 1, Len(items))

\* C12: decrement of an id whose line has quantity 1 removes that line; with a
\* quantity above 1 it lowers that quantity by exactly 1; every other line is
\* unchanged in both cases, and decrement of an id without a line changes
\* nothing.
C12_Decrement ==
    [][\A p \in CartProducts :
          (~panicked /\ cart' = DecrementItem(cart, p.id)) =>
              IF LinesOf(cart, p.id) = {} THEN cart' = cart
              ELSE LET i == CHOOSE l \in LinesOf(cart, p.id) : TRUE
                   IN  IF cart[i].quantity = 1
                       THEN cart' = WithoutLine(cart, i)
                       ELSE cart[i].quantity > 1 =>
                              /\ Len(cart') = Len(cart)
                              /\ cart'[i].product = cart[i].product
                              /\ cart'[i].quantity = cart[i].quantity - 1
                              /\ \A j \in 1..Len(cart) : j # i => cart'[j] = cart[j]]_vars

\* C12 witness: a cart of two lines on which decrement meets both cases, the
\* first line at quantity 1 and the second above 1
C12_BothCasesAtHand ==
    /\ ~panicked
    /\ Len(cart) = 2
    /\ cart[1].quantity = 1
    /\ cart[2].quantity > 1
    /\ cart[2].quantity <= MaxQty

\* x * y as a mathematical integer, for a price x > 0: `fits` tells whether it
\* is an i32, and `val` is the product when it fits
ExactProduct(x, y) ==
    IF y >= 0
    THEN IF y <= I32Max \div x THEN [fits |-> TRUE, val |-> x * y]
         ELSE [fits |-> FALSE, val |-> 0]
    ELSE IF y >= 0 - (I32Max \div x) THEN [fits |-> TRUE, val |-> x * y]
         ELSE IF I32Min % x = 0 /\ y = I32Min \div x THEN [fits |-> TRUE, val |-> I32Min]
         ELSE [fits |-> FALSE, val |-> 0]

\* x + y as a mathematical integer, in the same form
ExactSum(x, y) ==
    IF x.fits /\ y.fits /\ ~AddOverflows(x.val, y.val)
    THEN [fits |-> TRUE, val |-> x.val + y.val]
    ELSE [fits |-> FALSE, val |-> 0]

Exactly(n) == [fits |-> TRUE, val |-> n]

\* the sum over the lines of unit price times quantity
RECURSIVE ExactSubtotal(_)
ExactSubtotal(items) ==
    IF items = <<>> THEN Exactly(0)
    ELSE ExactSum(ExactSubtotal(SubSeq(items, 1, Len(items) - 1)),
                  ExactProduct(items[Len(items)].product.price_cents,
                               items[Len(items)].quantity))

\* the sum over the lines of the quantity
RECURSIVE ExactQuantity(_)
ExactQuantity(items) ==
    IF items = <<>> THEN Exactly(0)
    ELSE ExactSum(ExactQuantity(SubSeq(items, 1, Len(items) - 1)),
                  Exactly(items[Len(items)].quantity))

\* C13 as stated: in every reachable cart state, subtotal() is the sum over the
\* lines of unit price times quantity and totalItems() is the sum of the
\* quantities, both in exact integer arithmetic.
C13_TotalsAreExact ==
    /\ ExactSubtotal(cart).fits
    /\ SubtotalCents(cart) = ExactSubtotal(cart).val
    /\ ExactQuantity(cart).fits
    /\ TotalItems(cart) = ExactQuantity(cart).val

(***************************************************************************)
(* Properties of the cache, checked under CacheSpec.                        *)
(***************************************************************************)
\* what get must return for a key whose time to live is ttl: the data last
\* set while less than ttl has passed since, absent otherwise
\* what a get returned and what was expected of it are the same: both absent,
\* or the same list
SameList(got, wanted) == IF got = None THEN wanted = None ELSE got = wanted

Expected(key, ttl) ==
    IF key \in DOMAIN last_set /\ now < last_set[key].at + ttl
    THEN last_set[key].data
    ELSE None

\* C14: for the products cache (300 s) and the regions cache (1800 s), get(k)
\* before the time to live has passed since the last set of k returns the value
\* of that set, get(k) from then on returns absent, a set of an expired key
\* makes it live again for a full time to live, and a set of one key does not
\* change what get returns for another.
C14_GetFollowsLastSet ==
    /\ \A region_id \in RegionIds :
           SameList(GetProducts(app.cache, region_id, now),
                    Expected(ProductsKey(region_id), 300))
    /\ SameList(GetRegions(app.cache, now), Expected(RegionsKey, 1800))

\* C14 witness: at 301 s the products of one region, set at 0, have expired,
\* those of the other, set again at 300, are served, and so are the regions
\* set at 0
C14_ExpiredAndRenewed ==
    /\ now = 301
    /\ DOMAIN last_set = {ProductsKey("global"), ProductsKey("us"), RegionsKey}
    /\ last_set[ProductsKey("global")].at = 0
    /\ last_set[ProductsKey("us")].at = 300
    /\ last_set[RegionsKey].at = 0
    /\ GetProducts(app.cache, "global", now) = None
    /\ SameList(GetProducts(app.cache, "us", now), <<ProductP1>>)
    /\ SameList(GetRegions(app.cache, now), <<RegionUS>>)

(***************************************************************************)
(* Properties of the loads, checked under LoadSpec.                         *)
(***************************************************************************)
\* every installed product is one of the current region
ProductsOfCurrentRegion(a) ==
    \A i \in 1..Len(a.products) : a.products[i].region_id = a.region.id

\* load_products against the cache as it was before the call
ProductsReadThrough ==
    \A res \in ProductsAnswers(app.region.id) :
        (called' = "load_products" /\ app' = LoadProducts(Handling(app), now, res)) =>
            LET live == GetProducts(app.cache, app.region.id, now)
            IN  /\ live # None => app'.db_calls = <<>> /\ app'.products = live
                /\ live = None => app'.db_calls = <<"get_products">>
                /\ (live = None /\ res.ok) =>
                       /\ app'.products = res.val
                       /\ SameList(GetProducts(app'.cache, app.region.id, now), res.val)
                /\ ProductsOfCurrentRegion(app')

\* load_regions against the cache as it was before the call; succeeded(res)
\* says which answers count as a success
RegionsReadThrough(succeeded(_)) ==
    \A res \in RegionsAnswers :
        (called' = "load_regions" /\ app' = LoadRegions(Handling(app), now, res)) =>
            LET live == GetRegions(app.cache, now)
            IN  /\ live # None => app'.db_calls = <<>> /\ app'.regions = live
                /\ live = None => app'.db_calls = <<"get_regions">>
                /\ (live = None /\ succeeded(res)) =>
                       /\ app'.regions = res.val
                       /\ SameList(GetRegions(app'.cache, now), res.val)

AnyList(res) == res.ok

NonEmptyList(res) == res.ok /\ res.val # <<>>

\* an empty answer to get_regions installs the default and stores nothing
EmptyRegionsAnswer ==
    (/\ called' = "load_regions"
     /\ GetRegions(app.cache, now) = None
     /\ app' = LoadRegions(Handling(app), now, Ok(<<>>)))
        => /\ app'.regions = <<RegionDefault>>
           /\ app'.cache = app.cache

CheckoutSteps == {"Cart", "Shipping", "Payment", "Confirmation"}

\* the fields a failed load_regions writes, blanked
BesidesRegions(a) ==
    [a EXCEPT !.regions = <<>>, !.region = RegionDefault, !.notification = None,
              !.loading = "Idle", !.db_calls = <<>>]

\* the fields a failed load_products writes, blanked
BesidesProducts(a) ==
    [a EXCEPT !.products = <<>>, !.notification = None,
              !.loading = "Idle", !.db_calls = <<>>]

RegionsLoadFails ==
    /\ called' = "load_regions"
    /\ GetRegions(app.cache, now) = None
    /\ app' = LoadRegions(Handling(app), now, Timeout)

ProductsLoadFails ==
    /\ called' = "load_products"
    /\ GetProducts(app.cache, app.region.id, now) = None
    /\ app' = LoadProducts(Handling(app), now, Timeout)

\* C16: a failed load_regions leaves the single default region as list and as
\* current region and sets a notification; a failed load_products leaves an
\* empty product list and sets a notification; either returns, the session
\* keeps running, and the checkout step (whichever it is) and every other
\* field stay as they were.
C16_LoadFailures ==
    [][/\ RegionsLoadFails =>
              /\ app'.regions = <<RegionDefault>>
              /\ app'.region = RegionDefault
              /\ app'.notification = "Failed to load regions: timeout"
              /\ app'.running = app.running
              /\ BesidesRegions(app') = BesidesRegions(app)
              /\ pc' = "events" /\ ~panicked'
              /\ \A step \in CheckoutSteps :
                    LoadRegions([Handling(app) EXCEPT !.checkout_step = step],
                                now, Timeout).checkout_step = step
       /\ ProductsLoadFails =>
              /\ app'.products = <<>>
              /\ app'.notification = "Failed to load products: timeout"
              /\ app'.running = app.running
              /\ BesidesProducts(app') = BesidesProducts(app)
              /\ pc' = "events" /\ ~panicked'
              /\ \A step \in CheckoutSteps :
                    LoadProducts([Handling(app) EXCEPT !.checkout_step = step],
                                 now, Timeout).checkout_step = step]_vars

\* C16 witness: the regions reload fails after the regions entry has expired,
\* in a session that was on region us with its catalog loaded
C16_RegionsReloadFailed ==
    /\ called = "load_regions"
    /\ app.loading = "Error"
    /\ app.notification = "Failed to load regions: timeout"
    /\ app.regions = <<RegionDefault>>
    /\ app.region = RegionDefault
    /\ app.products # <<>>
    /\ app.products[1].region_id = "us"
    /\ app.running
    /\ now >= RegionsTtl

\* C17: once load_initial_data has run, and after any region cycles and
\* reloads, the current region is an element of the loaded region list, or it
\* is the built-in default and the backend returned no regions (the list is
\* then empty or the default alone).
C17_RegionIsOfTheList ==
    pc = "events" =>
        \/ \E i \in 1..Len(app.regions) : app.regions[i].id = app.region.id
        \/ app.region = RegionDefault /\ app.regions \in {<<>>, <<RegionDefault>>}

(***************************************************************************)
(* Properties of the event loop, checked under LoopSpec.                    *)
(***************************************************************************)
\* the session apart from the requests of the current event
Session(a) == [a EXCEPT !.db_calls = <<>>]

\* C18: while the backend call of one key event is pending, no other key
\* event is taken from the terminal, no second request is sent and the
\* session is not written; a key event is read only when no handler is
\* suspended, and the suspended handler ends with all its writes made at once.
C18_OneEventAtATime ==
    [][/\ pending # <<>> =>
              /\ Len(queue') >= Len(queue)
              /\ SubSeq(queue', 1, Len(queue)) = queue
              /\ Len(app.db_calls) = 1
              /\ pending' \in {pending, <<>>}
              /\ pending' = pending => app' = app
              /\ pending' = <<>> => Len(app'.db_calls) = 1
       /\ Len(queue') < Len(queue) =>
              /\ pending = <<>>
              /\ pending' # <<>> => Session(app') = Session(app) /\ Len(app'.db_calls) = 1
       /\ (pc = "events" /\ app' # app) => Len(app'.db_calls) <= 1]_vars

\* C18 witness: delete_address is in flight for the Delete key while two more
\* keys wait in the terminal
C18_KeysWaitDuringDelete ==
    /\ pending = <<NamedKey("Delete")>>
    /\ app.db_calls = <<"delete_address">>
    /\ Len(app.saved_addresses) = 1
    /\ Len(queue) = MaxQueue

(***************************************************************************)
(* Properties of the saved addresses, checked under SavedSpec.              *)
(***************************************************************************)
\* the address form is complete and next_checkout_step has sent its save
SavedByAdvance(res) ==
    /\ called' = "next_checkout_step"
    /\ InAddNewAddress
    /\ app' = NextCheckoutStep(Handling(app), res)
    /\ app'.db_calls = <<"save_address">>

\* C19: the saved-address list never holds more than 3 entries, whatever
\* loads, saves and deletes are made (the backend lists at most 3), and an
\* address persisted during checkout is placed at index 0, ahead of the ones
\* saved before, which keep their order.
C19_AtMostThreeNewestFirst ==
    [][/\ Len(app'.saved_addresses) <= 3
       /\ \A res \in {SaveCreated("new"), SaveEchoed} :
              SavedByAdvance(res) =>
                  /\ app'.saved_addresses # <<>>
                  /\ Tail(app'.saved_addresses) = app.saved_addresses
                  /\ ToShipping(app'.saved_addresses[1]) = app.shipping_address]_vars

\* C19 witness: with two rows left of three, the address typed is saved and
\* heads a list of three
C19_ThirdSavedAtHead ==
    /\ called = "next_checkout_step"
    /\ app.db_calls = <<"save_address">>
    /\ Len(app.saved_addresses) = 3
    /\ app.saved_addresses[1].id = "new"
    /\ app.saved_addresses[2].id = "id2"
    /\ app.saved_addresses[3].id = "id3"

\* the session apart from the saved list and the requests of the event
BesidesSaved(a) == [a EXCEPT !.saved_addresses = <<>>, !.db_calls = <<>>]

\* C20: a failure of the backend in load_saved_addresses, save_address_to_db
\* or delete_address_from_db sets no notification and leaves the loading
\* state alone.  A failed load leaves an empty saved list; a failed save
\* leaves the saved list as it was and the advance reaches Payment exactly as
\* with a save that succeeds; a delete returns with the row removed from the
\* session whatever the backend answered.
C20_FailuresSwallowed ==
    [][/\ (called' = "load_saved_addresses"
             /\ app' = LoadSavedAddresses(Handling(app), Timeout)) =>
              /\ app'.saved_addresses = <<>>
              /\ app'.notification = app.notification
              /\ app'.loading = app.loading
              /\ BesidesSaved(app') = BesidesSaved(app)
              /\ pc' = "events"
       /\ SavedByAdvance(SaveFailed) =>
              /\ app'.saved_addresses = app.saved_addresses
              /\ app'.checkout_step = "Payment"
              /\ app'.notification = None
              /\ app'.loading = app.loading
              /\ \A res \in {SaveCreated("new"), SaveEchoed} :
                     BesidesSaved(NextCheckoutStep(Handling(app), res)) = BesidesSaved(app')
              /\ pc' = "events"
       /\ (called' = "remove_selected_address"
             /\ app'.db_calls = <<"delete_address">>) =>
              /\ Len(app'.saved_addresses) = Len(app.saved_addresses) - 1
              /\ app'.notification = app.notification
              /\ app'.loading = app.loading
              /\ app'.checkout_step = app.checkout_step
              /\ pc' = "events"]_vars

\* C20 witness: the list could not be loaded, the save of the typed address
\* failed too, and the checkout is in Payment without a notification
C20_SaveFailedSilently ==
    /\ called = "next_checkout_step"
    /\ app.db_calls = <<"save_address">>
    /\ app.saved_addresses = <<>>
    /\ app.shipping_address.city = Text("y")
    /\ app.checkout_step = "Payment"
    /\ app.notification = None
    /\ app.loading = "Idle"

(***************************************************************************)
(* Properties of the retreat and of the payment menu, checked under         *)
(* BackSpec.                                                                *)
(***************************************************************************)
Retreated == called' = "prev_checkout_step"

\* C21: a retreat from Payment, whatever the payment method, clears the
\* method, sets the shipping sub-mode to SelectAddress, clears the active
\* field and returns to Shipping; the working address, the payment info, the
\* cart and the address selection index stay as they were.
C21_RetreatFromPayment ==
    [][(Retreated /\ app.checkout_step = "Payment") =>
          /\ app'.payment_method = None
          /\ app'.shipping_mode = "SelectAddress"
          /\ app'.active_input = None
          /\ app'.checkout_step = "Shipping"
          /\ app'.shipping_address = app.shipping_address
          /\ app'.payment_info = app.payment_info
          /\ app'.cart = app.cart
          /\ app'.address_select_index = app.address_select_index]_vars

\* C21 witness: back in Shipping/SelectAddress with the method cleared, after
\* an address was entered in the form and the card form was filled
C21_BackFromCardForm ==
    /\ called = "prev_checkout_step"
    /\ app.checkout_step = "Shipping"
    /\ app.shipping_mode = "SelectAddress"
    /\ app.payment_method = None
    /\ app.active_input = None
    /\ app.shipping_address.city = Text("z")
    /\ app.payment_info.cvv = Text("1")
    /\ app.address_select_index = 1
    /\ app.cart # <<>>

\* C22: a retreat from Confirmation returns to Payment with the payment
\* method kept; the active field becomes payment-name if the method is Ssh
\* and none otherwise; the cart is left as it was.
C22_RetreatFromConfirmation ==
    [][(Retreated /\ app.checkout_step = "Confirmation") =>
          /\ app'.checkout_step = "Payment"
          /\ app'.payment_method = app.payment_method
          /\ app'.active_input =
                 IF app.payment_method = "Ssh" THEN "PaymentName" ELSE None
          /\ app'.cart = app.cart]_vars

\* C22 witness: back in Payment from a confirmation of a card payment, the
\* card form open at its first field and the cart still filled
C22_BackToCardForm ==
    /\ called = "prev_checkout_step"
    /\ app.checkout_step = "Payment"
    /\ app.payment_method = "Ssh"
    /\ app.active_input = "PaymentName"
    /\ app.payment_info.cvv = Text("1")
    /\ app.cart # <<>>

(***************************************************************************)
(* Properties of the editing of the forms, checked under FieldSpec.         *)
(***************************************************************************)
\* the messages of the two gates
GateMessages ==
    {CantBeEmpty(ShippingWords[i]) : i \in 1..Len(ShippingWords)}
        \cup {CantBeEmpty(PaymentWords[i]) : i \in 1..Len(PaymentWords)}

\* C23: the notification holds at most the latest message (a gate that
\* blocks leaves its own message, whatever was there), and it is none after
\* every typed character, every move to the next field, every retreat and
\* every explicit clear.
C23_NotificationCleared ==
    [][/\ called' \in {"handle_input_char", "next_input_field",
                       "prev_checkout_step", "clear_notification"}
              => app'.notification = None
       /\ called' = "next_checkout_step"
              => app'.notification \in GateMessages \cup {None}]_vars

\* C23 witness: in the address form, after the gate has asked for the name,
\* the customer has moved on to the street and typed there
C23_TypedAfterGate ==
    /\ called = "handle_input_char"
    /\ app.checkout_step = "Shipping"
    /\ app.shipping_mode = "AddNewAddress"
    /\ app.active_input = "Street1"
    /\ app.shipping_address.name = EmptyText
    /\ app.shipping_address.street_1 = Text("z")
    /\ app.notification = None

\* the two orderings as the claim states them: each field with its successor
ShippingSuccessor ==
    [Name |-> "Street1", Street1 |-> "Street2", Street2 |-> "City",
     City |-> "State", State |-> "Country", Country |-> "Phone",
     Phone |-> "PostalCode", PostalCode |-> "Name"]

PaymentSuccessor ==
    [PaymentName |-> "PaymentEmail", PaymentEmail |-> "CardNumber",
     CardNumber |-> "ExpiryMonth", ExpiryMonth |-> "ExpiryYear",
     ExpiryYear |-> "Cvv", Cvv |-> "PaymentName"]

\* n consecutive calls of next_input_field
RECURSIVE Advances(_, _)
Advances(a, n) == IF n = 0 THEN a ELSE Advances(NextInputField(a), n - 1)

\* C25: next_input_field in Shipping moves from each of the 8 shipping
\* fields to its successor in name, street1, street2, city, state, country,
\* phone, postalCode, wrapping from postalCode to name; in Payment with
\* method Ssh likewise over the 6 payment fields, wrapping from cvv to
\* payment-name; the field it leaves active is one of the ordering of the
\* step, and 8 (resp. 6) calls in a row come back to the field they began at.
C25_NextFieldCycles ==
    [][called' = "next_input_field" =>
          /\ app.checkout_step = "Shipping" =>
                 /\ app'.active_input \in DOMAIN ShippingSuccessor
                 /\ app.active_input \in DOMAIN ShippingSuccessor =>
                        /\ app'.active_input = ShippingSuccessor[app.active_input]
                        /\ Advances(app, 8).active_input = app.active_input
                        /\ \A n \in 1..7 : Advances(app, n).active_input # app.active_input
          /\ (app.checkout_step = "Payment" /\ app.payment_method = "Ssh") =>
                 /\ app'.active_input \in DOMAIN PaymentSuccessor
                 /\ app.active_input \in DOMAIN PaymentSuccessor =>
                        /\ app'.active_input = PaymentSuccessor[app.active_input]
                        /\ Advances(app, 6).active_input = app.active_input
                        /\ \A n \in 1..5 : Advances(app, n).active_input # app.active_input]_vars

\* C25 witness: with the e-mail typed, the card form has been gone round
\* from cvv back to its first field
C25_WrappedToPaymentName ==
    /\ called = "next_input_field"
    /\ app.checkout_step = "Payment"
    /\ app.payment_method = "Ssh"
    /\ app.active_input = "PaymentName"
    /\ app.payment_info.email = Text("z")

(***************************************************************************)
(* Properties of typing, checked under TypeSpec.                            *)
(***************************************************************************)
Digits == {"0", "1", "2", "3", "4", "5", "6", "7", "8", "9"}

DigitsOnly(text) == \A i \in 1..Len(text) : text[i] \in Digits

\* the caps as the claim states them
StatedCap(f) ==
    CASE f = "CardNumber" -> 16
      [] f = "ExpiryMonth" -> 2
      [] f = "ExpiryYear" -> 4
      [] f = "Cvv" -> 3

CardFieldsCapped(p) ==
    /\ Len(p.card_number) <= 16 /\ DigitsOnly(p.card_number)
    /\ Len(p.expiry_month) <= 2 /\ DigitsOnly(p.expiry_month)
    /\ Len(p.expiry_year) <= 4 /\ DigitsOnly(p.expiry_year)
    /\ Len(p.cvv) <= 3 /\ DigitsOnly(p.cvv)

\* C24: after any characters and backspaces the card number has at most 16
\* characters, the expiry month 2, the expiry year 4 and the CVV 3, all of
\* them digits; a non-digit, or a digit typed into a field at its cap, leaves
\* the payment info as it was.
C24_DigitFieldsCapped ==
    [][/\ CardFieldsCapped(app'.payment_info)
       /\ \A c \in {"1", "z"} :
              (/\ called' = "handle_input_char"
               /\ app.active_input \in DigitFields
               /\ app' = HandleInputChar(Handling(app), c)
               /\ \/ c \notin Digits
                  \/ Len(app.payment_info[PaymentSlot(app.active_input)])
                         >= StatedCap(app.active_input))
                  => app'.payment_info = app.payment_info]_vars

\* C24 witness: every digit-only field is full and a character has just been
\* typed into the CVV
C24_AllFieldsFull ==
    /\ called = "handle_input_char"
    /\ app.active_input = "Cvv"
    /\ Len(app.payment_info.card_number) = 16
    /\ Len(app.payment_info.expiry_month) = 2
    /\ Len(app.payment_info.expiry_year) = 4
    /\ Len(app.payment_info.cvv) = 3

(***************************************************************************)
(* Properties of the list navigation, checked under NavSpec.                *)
(***************************************************************************)
Lists == {"products", "cart", "account", "payment", "address"}

\* the position of an account section in the order of the enum
SectionIndex(section) ==
    CASE section = "OrderHistory" -> 0
      [] section = "Subscriptions" -> 1
      [] section = "Faq" -> 2
      [] section = "About" -> 3

\* the highlighted index of a list and the number of its entries
IndexOf(list, a) ==
    CASE list = "products" -> a.selected_product_index
      [] list = "cart" -> a.cart_item_index
      [] list = "account" -> SectionIndex(a.account_section)
      [] list = "payment" -> a.payment_option_index
      [] list = "address" -> a.address_select_index

SizeOf(list, a) ==
    CASE list = "products" -> Len(a.products)
      [] list = "cart" -> Len(a.cart)
      [] list = "account" -> 4
      [] list = "payment" -> 2
      [] list = "address" -> Len(a.saved_addresses) + 1

\* one "next" or "previous" action on a list
Navigate(list, dir, a) ==
    CASE list = "products" -> IF dir = "next" THEN NextProduct(a) ELSE PrevProduct(a)
      [] list = "cart" -> IF dir = "next" THEN NextCartItem(a) ELSE PrevCartItem(a)
      [] list = "account" ->
            IF dir = "next" THEN NextAccountSection(a) ELSE PrevAccountSection(a)
      [] list = "payment" ->
            IF dir = "next" THEN NextPaymentOption(a) ELSE PrevPaymentOption(a)
      [] list = "address" ->
            IF dir = "next" THEN NextAddressOption(a) ELSE PrevAddressOption(a)

\* k consecutive actions
RECURSIVE Navigated(_, _, _, _)
Navigated(list, dir, k, a) ==
    IF k = 0 THEN a ELSE Navigated(list, dir, k - 1, Navigate(list, dir, a))

\* the navigation of one list is cyclic and in bounds in the state a
CyclicIn(list, a) ==
    LET n == SizeOf(list, a)
        i == IndexOf(list, a)
    IN  IF n = 0
        THEN Navigate(list, "next", a) = a /\ Navigate(list, "prev", a) = a
        ELSE /\ IndexOf(list, Navigate(list, "next", a)) = (i + 1) % n
             /\ IndexOf(list, Navigate(list, "prev", a)) = (i + n - 1) % n
             /\ IndexOf(list, Navigate(list, "prev", Navigate(list, "next", a))) = i
             /\ IndexOf(list, Navigated(list, "prev", n, a)) = i

\* the list that Up and Down move through in the state a (events.rs:28-61,
\* 96-97, 113-114, 124-125, 153-154, 165-166), "none" if they move nothing
ListAtHand(a) ==
    IF a.show_splash \/ a.active_input # None THEN "none"
    ELSE IF a.current_tab = "Shop" THEN "products"
    ELSE IF a.current_tab = "Account" THEN "account"
    ELSE IF a.current_tab # "Cart" THEN "none"
    ELSE IF a.checkout_step = "Cart" THEN "cart"
    ELSE IF a.checkout_step = "Shipping" /\ a.shipping_mode = "SelectAddress" THEN "address"
    ELSE IF a.checkout_step = "Payment" /\ a.payment_method = None THEN "payment"
    ELSE "none"

\* the navigation of every list is cyclic and in bounds in the session
CyclicEverywhere == pc = "events" => \A list \in Lists : CyclicIn(list, app)

\* C26: every list navigation is cyclic and stays in bounds: on a list of
\* n >= 1 entries "next" maps the index i to (i+1) mod n, "previous" maps it to
\* (i-1) mod n, previous undoes next and n times previous returns to the
\* start; on an empty product or cart list navigation changes nothing.
C26_NavigationCyclic ==
    /\ []CyclicEverywhere
    /\ [][(called' \in {"Up", "Down"} /\ ListAtHand(app) \in Lists) =>
             LET list == ListAtHand(app)
                 n == SizeOf(list, app)
                 i == IndexOf(list, app)
             IN  IF n = 0 THEN app' = Handling(app)
                 ELSE /\ i < n
                      /\ IndexOf(list, app') =
                             IF called' = "Down" THEN (i + 1) % n ELSE (i + n - 1) % n
                      /\ SizeOf(list, app') = n]_vars

\* C26 witness: Up on the first of three products has wrapped to the last
C26_WrappedToLastProduct ==
    /\ called = "Up"
    /\ ListAtHand(app) = "products"
    /\ Len(app.products) = 3
    /\ app.selected_product_index = 2

\* the selected cart line is a line of the cart whenever the cart has lines:
\* the index is stale only over the cart that the end of a checkout emptied
C26_CartIndexInBounds == app.cart # <<>> => app.cart_item_index < Len(app.cart)

(***************************************************************************)
(* Properties of the totality of Cart, checked under CartSpec.              *)
(***************************************************************************)
\* remove_item of a product id without a line leaves the cart as it is
RemoveOfAbsentIsIdle ==
    \A p \in CartProducts :
        FindItem(cart, p.id) = 0 => RemoveItem(cart, p.id) = cart

\* C27 as stated: every cart operation completes without failing, also when
\* repeated add or increment reach the 32-bit limit, and remove of a product
\* id that is not in the cart leaves the cart unchanged.
C27_CartOperationsTotal ==
    /\ ~panicked
    /\ RemoveOfAbsentIsIdle

\* C27, the part on remove: in every cart state a call of remove on an absent
\* id, repeated or not, changes nothing.
C27_RemoveOfAbsentChangesNothing ==
    ~panicked =>
        /\ RemoveOfAbsentIsIdle
        /\ \A p \in CartProducts :
               RemoveItem(RemoveItem(cart, p.id), p.id) = RemoveItem(cart, p.id)

(***************************************************************************)
(* Properties of the choice of the payment method, checked under BackSpec.  *)
(***************************************************************************)
\* C28: in Payment, select_payment_method with option index 0 sets the method
\* to Ssh and the active field to payment-name, and with any other index sets
\* the method to Browser and clears the active field; the step stays Payment
\* and the payment info is unchanged.
C28_MethodFollowsOption ==
    [][(called' = "select_payment_method" /\ app.checkout_step = "Payment") =>
          /\ IF app.payment_option_index = 0
             THEN app'.payment_method = "Ssh" /\ app'.active_input = "PaymentName"
             ELSE app'.payment_method = "Browser" /\ app'.active_input = None
          /\ app'.checkout_step = "Payment"
          /\ app'.payment_info = app.payment_info]_vars

\* C28 witness: the browser chosen over a filled card form
C28_BrowserOverFilledForm ==
    /\ called = "select_payment_method"
    /\ app.checkout_step = "Payment"
    /\ app.payment_option_index = 1
    /\ app.payment_method = "Browser"
    /\ app.active_input = None
    /\ app.payment_info.cvv = Text("1")

(***************************************************************************)
(* Properties of the edits of the forms, checked under EditSpec.            *)
(***************************************************************************)
Edited == called' \in {"handle_input_char", "handle_input_backspace"}

\* the session without the two drafts and without the notification, which
\* handle_input_char clears
BesidesDrafts(a) ==
    [a EXCEPT !.shipping_address = ShippingAddressDefault,
              !.payment_info = PaymentInfoDefault,
              !.notification = None,
              !.db_calls = <<>>]

\* the form `after` differs from `before` in the slot at most
OnlySlotChanged(before, after, slot) ==
    \A k \in DOMAIN before : k # slot => after[k] = before[k]

\* the text `after` is `before` edited by the call
EditedText(before, after, method) ==
    IF method = "handle_input_backspace"
    THEN IF before = <<>> THEN after = <<>>
         ELSE after = SubSeq(before, 1, Len(before) - 1)
    ELSE \/ after = before
         \/ \E c \in EditKeys : after = Append(before, c)

LineRemoved == called' = "-" /\ Len(app'.cart) < Len(app.cart)

\* C30: when the decrement key removes the selected cart line, the index moves
\* back by one to the new last line if the line was the last one and the cart
\* is still non-empty, and is unchanged if the line was not the last one; in
\* both cases the index is within the remaining lines.
C30_IndexFollowsRemoval ==
    [][LineRemoved =>
          LET i == app.cart_item_index
              n == Len(app.cart)
          IN  /\ i < n
              /\ app'.cart = WithoutLine(app.cart, i + 1)
              /\ (i = n - 1 /\ app'.cart # <<>>) =>
                     /\ app'.cart_item_index = i - 1
                     /\ app'.cart_item_index = Len(app'.cart) - 1
              /\ i < n - 1 => app'.cart_item_index = i
              /\ app'.cart # <<>> => app'.cart_item_index < Len(app'.cart)]_vars

\* C30 witness: '-' in the cart has removed one of three lines and the
\* selection is on the second of the two that remain
C30_BackToSecondLine ==
    /\ called = "-"
    /\ ListAtHand(app) = "cart"
    /\ Len(app.cart) = 2
    /\ app.cart_item_index = 1

\* a checkout has ended with the third cart line selected: the cart is empty
\* and the index is left at 2
StaleIndexOverEmptyCart ==
    /\ pc = "events"
    /\ app.cart = <<>>
    /\ app.cart_item_index = 2

(***************************************************************************)
(* Properties of the session at the keyboard, checked under PaySpec.        *)
(***************************************************************************)
\* the keys of a terminal, one of each kind that events.rs tells apart
EveryKey ==
    {CharKey(c) : c \in {"q", "c", "s", "a", "r", "x", "j", "k", "+", "-", "1", "z"}}
        \cup {CtrlKey("c")}
        \cup {NamedKey(k) : k \in {"Enter", "Esc", "Tab", "Backspace", "Delete",
                                   "Up", "Down", "Left", "F1"}}

\* a running session at step Cart with an empty cart and a field active:
\* handle_key_event hands every key to handle_input_mode (events.rs:27-31)
InInputTrap(a) ==
    /\ a.running
    /\ ~a.show_splash
    /\ a.active_input # None
    /\ a.checkout_step = "Cart"
    /\ CartIsEmpty(a.cart)

\* no key, whatever it is, ends the session or releases the field
Captive(a) ==
    /\ InInputTrap(a)
    /\ \A key \in EveryKey, save_res \in SaveAnswers :
           InInputTrap(HandleKeyEvent(Handling(a), now, key, NoAnswer, save_res))

\* C31 as stated: from every state reached through key events some sequence of
\* keys ends the session and some sequence returns to a state with no active
\* field; after a completed checkout the user is not left where every key is
\* consumed by input mode.
C31_AlwaysAWayOut == ~Captive(app)

\* C31: the trap is closed under the keys of PaySpec, so that a captive
\* session stays captive
C31_TrapIsClosed == [][InInputTrap(app) => Captive(app) /\ InInputTrap(app')]_vars

\* the active field belongs to the form that the step shows
FieldFitsStep(a) ==
    IF IsShippingField(a.active_input)
    THEN a.checkout_step = "Shipping" /\ a.shipping_mode = "AddNewAddress"
    ELSE IF IsPaymentField(a.active_input)
    THEN a.checkout_step = "Payment" /\ a.payment_method = "Ssh"
    ELSE a.active_input = None

\* C32 as stated: in every state reached through key events the active field
\* is a shipping field only in Shipping/AddNewAddress, a payment field only in
\* Payment with method Ssh, and none in every other step or sub-mode.
C32_FieldFitsStep == pc = "events" => FieldFitsStep(app)

\* C32, up to the confirmation: while the step is Cart, Shipping or Payment
\* and no order has been placed, the active field fits the step
C32_FieldFitsStepBeforeConfirmation ==
    (pc = "events" /\ app.checkout_step # "Confirmation" /\ ~InInputTrap(app))
        => FieldFitsStep(app)

(***************************************************************************)
(* Properties of the checkout at the keyboard, checked under NavSpec.       *)
(***************************************************************************)
\* the cart tab shows Payment with the browser chosen and no field active
AtBrowserPayment(a) ==
    /\ a.running
    /\ ~a.show_splash
    /\ a.current_tab = "Cart"
    /\ a.checkout_step = "Payment"
    /\ a.payment_method = "Browser"
    /\ a.active_input = None

\* C33 as stated: from Payment with method Browser and no active field,
\* pressing Enter moves the checkout step to Confirmation.
C33_EnterConfirmsBrowser ==
    [][(called' = "Enter" /\ AtBrowserPayment(app))
          => app'.checkout_step = "Confirmation"]_vars

\* C33: with the browser chosen no key at all leads to Confirmation; the only
\* key that leaves the state is Esc, back to the list of addresses
C33_NoKeyConfirmsBrowser ==
    AtBrowserPayment(app) =>
        \A key \in EveryKey, save_res \in SaveAnswers :
            HandleKeyEvent(Handling(app), now, key, NoAnswer, save_res).checkout_step
                # "Confirmation"

\* C33: no sequence of keys brings a session to Confirmation with the browser
\* as payment method
C33_BrowserNeverConfirmed ==
    ~(app.checkout_step = "Confirmation" /\ app.payment_method = "Browser")

\* C34: in every state reached through key events, whenever the checkout step
\* is Shipping, Payment or Confirmation the cart is non-empty.
C34_CheckoutHasItems ==
    app.checkout_step \in {"Shipping", "Payment", "Confirmation"}
        => ~CartIsEmpty(app.cart)

\* C34 witness: Enter in the shop has added a second product while the
\* checkout waits at Payment
C34_AddedDuringPayment ==
    /\ called = "Enter"
    /\ ~app.show_splash
    /\ app.current_tab = "Shop"
    /\ app.checkout_step = "Payment"
    /\ Len(app.cart) = 2

\* C35: whenever an App operation moves the checkout step from Shipping to
\* Payment, the payment method is unset in the resulting state, so Payment is
\* entered at the list of methods, in a second checkout as in the first.
C35_PaymentEnteredAtMenu ==
    [][(app.checkout_step = "Shipping" /\ app'.checkout_step = "Payment")
          => app'.payment_method = None]_vars

\* a second checkout begun on a confirmed order: the order is placed, a
\* product is added, the cart is checked out and the highlighted address option
\* is selected
SecondCheckout(a) ==
    SelectAddressOption(
        NextCheckoutStep(
            AddToCart(NextCheckoutStep(a, SaveFailed)),
            SaveFailed))

\* C35, the second cycle alone: a checkout begun after a confirmed order, every
\* method called in the step it belongs to, enters Payment with no method
\* chosen.
C35_SecondCheckoutStartsAtMenu ==
    (/\ pc = "events"
     /\ app.checkout_step = "Confirmation"
     /\ app.address_select_index < Len(app.saved_addresses)
     /\ SecondCheckout(app).checkout_step = "Payment")
        => SecondCheckout(app).payment_method = None

\* C36: in every state reached through key events, if the cart is non-empty
\* the selected cart item index is less than the number of cart lines.
C36_CartItemIndexInBounds ==
    ~CartIsEmpty(app.cart) => app.cart_item_index \in 0 .. (Len(app.cart) - 1)

\* C36 witness: Down in the cart has brought the selection to the last of
\* three lines
C36_OnLastOfThreeLines ==
    /\ called = "Down"
    /\ ListAtHand(app) = "cart"
    /\ Len(app.cart) = 3
    /\ app.cart_item_index = 2

(***************************************************************************)
(* AddressSpec: the saved addresses after start-up.  load_saved_addresses   *)
(* runs once, in load_initial_data (app.rs:356, main.rs:43); afterwards the *)
(* list changes only by the insert of a successful save and by the removal  *)
(* of the highlighted row.  The driver calls the methods that read or write *)
(* the list or the index, in any order.                                     *)
(***************************************************************************)
CallPrevAddressOption == Call("prev_address_option", PrevAddressOption(Handling(app)))

NextAddress ==
    \/ BootSaved
    \/ CallAddFirstItem
    \/ CallNextCheckoutStep
    \/ CallPrevCheckoutStep
    \/ CallSelectAddressOption
    \/ CallNextAddressOption
    \/ CallPrevAddressOption
    \/ CallTypeAddress
    \/ CallRemoveSelectedAddress

AddressSpec == Init /\ [][NextAddress]_vars

\* C37: in every reachable state the address selection index is between 0 and
\* the number of saved addresses inclusive: a saved address or the entry that
\* adds a new one.
C37_AddressIndexInBounds ==
    app.address_select_index \in 0 .. Len(app.saved_addresses)

\* C37 witness: the last saved row was highlighted and removed, which leaves
\* the index on the entry that adds a new address
C37_LastRowRemoved ==
    /\ called = "remove_selected_address"
    /\ Len(app.saved_addresses) = 2
    /\ app.address_select_index = 2

\* C37 witness of the insert: a successful save has put a new row in front of
\* the one the customer owned, and the checkout is at Payment
C37_SavedInFront ==
    /\ called = "next_checkout_step"
    /\ app.checkout_step = "Payment"
    /\ Len(app.saved_addresses) = 2
    /\ app.saved_addresses[2].id = "id1"

(***************************************************************************)
(* ShopSpec: a customer at the keyboard in the shop.  Two regions load at   *)
(* start-up and the catalog loads or fails; the customer opens the shop,    *)
(* moves through the products, raises and lowers the quantity up to the     *)
(* cap, changes the region with r (the backend answers with one product,    *)
(* with two, or fails) and adds one line to the cart.                       *)
(***************************************************************************)
\* the quantities the customer adds to the cart with
AddedQuantities == {1, 2, MaxProductQuantity}

StrokeShopTab == Stroke(CharKey("s"))

StrokeRegion ==
    \E res \in ProductsAnswers(CycleRegion(Handling(app), now, NoAnswer).region.id) :
        /\ pc = "events"
        /\ app.running
        /\ app' = HandleKeyEvent(Handling(app), now, CharKey("r"), res, SaveFailed)
        /\ called' = "r"
        /\ UNCHANGED <<pc, now, cart, panicked, aside>>

StrokeMore == Stroke(CharKey("+"))

StrokeFewer == Stroke(CharKey("-"))

StrokeAdd ==
    /\ CartIsEmpty(app.cart)
    /\ app.product_quantity \in AddedQuantities
    /\ Stroke(NamedKey("Enter"))

BootShop ==
    \E products_res \in ProductsAnswers(RegionDefault.id) :
        Boot(Ok(<<RegionDefault, RegionUS>>), products_res, Ok(<<>>))

NextShop ==
    \/ BootShop
    \/ StrokeShopTab
    \/ StrokeRegion
    \/ StrokeUp
    \/ StrokeDown
    \/ StrokeMore
    \/ StrokeFewer
    \/ StrokeAdd

ShopSpec == Init /\ [][NextShop]_vars

\* the key goes to handle_shop_keys
InShop(a) ==
    a.running /\ ~a.show_splash /\ a.active_input = None /\ a.current_tab = "Shop"

SelectionInBounds(a) ==
    /\ a.products # <<>> => a.selected_product_index < Len(a.products)
    /\ a.product_quantity \in 1 .. MaxProductQuantity

\* next/previous product on a non-empty list and an Enter that adds a product
\* leave the pending quantity at 1
QuantityReset ==
    (/\ called' \in {"Up", "Down", "Enter"}
     /\ now' = now
     /\ InShop(app)
     /\ app.products # <<>>)
        => app'.product_quantity = 1

EnterOnEmptyListKeepsQuantity ==
    [][(called' = "Enter" /\ InShop(app) /\ app.products = <<>>)
          => app'.product_quantity = app.product_quantity]_vars

\* r is handled by cycle_region (events.rs:39) and there is a region to go to
RegionKeyWorks(a) ==
    pc = "events" /\ a.running /\ ~a.show_splash /\ a.active_input = None
        /\ a.regions # <<>>

\* the region r leads to, and whether its catalog is served from the cache
RegionAhead(a) == CycleRegion(Handling(a), now, NoAnswer).region

ServedFromCache(a) == GetProducts(a.cache, RegionAhead(a).id, now) # None

\* the load of the catalog made by r with the answer res has failed
LoadFailed(a, res) == ~ServedFromCache(a) /\ ~res.ok

\* C39: after a load_regions or load_products call has returned, the loading
\* state is never Loading, and it is Error exactly when the most recently
\* completed load failed; a load served from the cache after a failed load
\* leaves it Idle.
C39_LoadingTellsLastLoad ==
    RegionKeyWorks(app) =>
        \A res \in ProductsAnswers(RegionAhead(app).id) :
            LET b == CycleRegion(Handling(app), now, res)
            IN  /\ b.loading # "Loading"
                /\ b.loading = "Error" <=> LoadFailed(app, res)

\* C39, what the code does: a load that asks the backend ends Idle or Error by
\* its answer, and a load served from the cache leaves the loading state as
\* the load before it left it
C39_LoadingTellsLastBackendLoad ==
    RegionKeyWorks(app) =>
        \A res \in ProductsAnswers(RegionAhead(app).id) :
            LET b == CycleRegion(Handling(app), now, res)
            IN  IF ServedFromCache(app)
                THEN b.loading = app.loading /\ b.db_calls = <<>>
                ELSE /\ b.db_calls = <<"get_products">>
                     /\ b.loading = (IF res.ok THEN "Idle" ELSE "Error")

\* C39: the state the claim is refuted in, a catalog served from the cache
\* under a loading state of Error
C39_ErrorOverCachedCatalog ==
    /\ called = "r"
    /\ app.loading = "Error"
    /\ app.products # <<>>
    /\ app.db_calls = <<>>

\* the call just made asked the backend for the catalog and failed
ProductsLoadJustFailed ==
    /\ called' \in {"load_products", "cycle_region"}
    /\ app'.db_calls = <<"get_products">>
    /\ app'.loading = "Error"

\* the call just made asked the backend for the regions and got an error or an
\* empty list
RegionsLoadJustFellBack ==
    /\ called' = "load_regions"
    /\ app'.db_calls = <<"get_regions">>
    /\ app'.regions = <<RegionDefault>>

\* from instant t on, a load_products of session a asks the backend
ProductsAskedAgain(a, t) ==
    \A u \in LoadInstants, res \in ProductsAnswers(a.region.id) :
        u >= t => LoadProducts(Handling(a), u, res).db_calls = <<"get_products">>

RegionsAskedAgain(a, t) ==
    \A u \in LoadInstants, res \in RegionsAnswers :
        u >= t => LoadRegions(Handling(a), u, res).db_calls = <<"get_regions">>

\* C40: a failed load_products, and a load_regions that fails or is answered
\* with no regions, do not write the cache: no entry can be read under the key
\* afterwards, and the next load for the key asks the backend again instead
\* of serving the fallback from the cache.
C40_FallbackNeverCached ==
    [][/\ ProductsLoadJustFailed =>
            /\ app'.cache = app.cache
            /\ GetProducts(app'.cache, app'.region.id, now') = None
            /\ ProductsAskedAgain(app', now')
       /\ RegionsLoadJustFellBack =>
            /\ app'.cache = app.cache
            /\ GetRegions(app'.cache, now') = None
            /\ RegionsAskedAgain(app', now')]_vars

\* C40 witness: the catalog of the region had been cached and has expired,
\* and the reload has failed: the list is empty and the old entry is all the
\* cache holds under the key
C40_ReloadFailedOverExpiredEntry ==
    /\ called = "load_products"
    /\ app.db_calls = <<"get_products">>
    /\ app.loading = "Error"
    /\ app.products = <<>>
    /\ ProductsKey(app.region.id) \in DOMAIN app.cache.products.entries
    /\ app.cache.products.entries[ProductsKey(app.region.id)].data # <<>>

\* C40 witness of the empty answer: load_regions was answered with no
\* regions, fell back to the default region and ended Idle
C40_NoRegionsAnswered ==
    /\ called = "load_regions"
    /\ app.db_calls = <<"get_regions">>
    /\ app.regions = <<RegionDefault>>
    /\ app.loading = "Idle"
    /\ GetRegions(app.cache, now) = None
====
